---- MODULE Spec2Model ----
(***************************************************************************)
(* A model of the Nexmo IVR client of mailroom (package nexmo): the        *)
(* correlation entries it keeps in redis, the status and resume webhooks   *)
(* that read and write them, the NCCO script builder and the URL signer.   *)
(*                                                                         *)
(* Go strings are TLA+ strings; a character is a string of length one.     *)
(* A handler is an operator from the state it reads and the answers of its *)
(* environment to what it returns and the state it leaves.                 *)
(***************************************************************************)
EXTENDS Naturals, Integers, Sequences, FiniteSets, TLC

VARIABLES
    store,      \* redis: key |-> [val, exp], the entries that have not expired
    now,        \* the redis server's clock, in seconds
    hmac,       \* the HMAC-SHA1 digests computed so far: signing input |-> base64 text
    requests,   \* the requests sent to the provider's API so far
    ticks,      \* how often the clock has advanced
    emitted,    \* the signed URLs handed to the provider so far
    issued,     \* how many UUIDs uuids.New() has returned
    assigned,   \* how many call IDs the provider has assigned to transferred legs
    last,       \* the last handler call: its name, its inputs and what it returned
    seen,       \* per transferred leg, the kinds of status processed for it while its
                \* transfer entry was live
    recent,     \* per original call, what the status table makes of the last status it
                \* maps that was processed for a transferred leg of the call
    rec,        \* per recording UUID: the recording URL last delivered for it, and the
                \* attachment a poll has resumed the session with since ("": none)
    polls,      \* per poll that is handled step by step: where it is in
                \* PreprocessResume, its request and what its GET returned
    batch       \* the contact import batch being worked on: the struct b, its row
                \* in contacts_contactimportbatch and what Import returned

vars == <<store, now, hmac, requests, ticks, emitted, issued, assigned, last, seen, recent, rec,
          polls, batch>>

Nil == "<nil>"

\* a nil *int
NoInt == -1

-----------------------------------------------------------------------------
(* Strings *)

\* the characters of the model's URLs, in byte order, and their byte values
Chars == " #%&+-./0123456789:=?ABCDEFGHIJKLMNOPQRSTUVWXYZ_abcdefghijklmnopqrstuvwxyz"

Codes ==
    <<32, 35, 37, 38, 43, 45, 46, 47, 48, 49, 50, 51, 52, 53, 54, 55, 56, 57, 58, 61, 63, 65,
      66, 67, 68, 69, 70, 71, 72, 73, 74, 75, 76, 77, 78, 79, 80, 81, 82, 83, 84, 85, 86, 87,
      88, 89, 90, 95, 97, 98, 99, 100, 101, 102, 103, 104, 105, 106, 107, 108, 109, 110, 111,
      112, 113, 114, 115, 116, 117, 118, 119, 120, 121, 122>>

HexDigits == "0123456789ABCDEF"

Chr(s, i) == SubSeq(s, i, i)

CharSet(s) == {SubSeq(s, i, i) : i \in 1..Len(s)}

\* strings.Index for a one-character separator, searching from position i: 0 when absent
RECURSIVE IndexFrom(_, _, _)
IndexFrom(s, c, i) ==
    IF i > Len(s) THEN 0
    ELSE IF SubSeq(s, i, i) = c THEN i
    ELSE IndexFrom(s, c, i + 1)

Index(s, c) == IndexFrom(s, c, 1)

Contains(s, c) == Index(s, c) # 0

HasPrefix(s, p) == Len(s) >= Len(p) /\ SubSeq(s, 1, Len(p)) = p

HasSuffix(s, p) == Len(s) >= Len(p) /\ SubSeq(s, Len(s) - Len(p) + 1, Len(s)) = p

\* the text before and after position i, the whole text and the empty text when i = 0
CutBefore(s, i) == IF i = 0 THEN s ELSE SubSeq(s, 1, i - 1)

CutAfter(s, i) == IF i = 0 THEN "" ELSE SubSeq(s, i + 1, Len(s))

\* the text before and after the first occurrence of the character c
Before(s, c) == CutBefore(s, Index(s, c))

After(s, c) == CutAfter(s, Index(s, c))

\* strings.TrimLeft(s, c)
RECURSIVE TrimLeft(_, _)
TrimLeft(s, c) ==
    IF Len(s) > 0 /\ SubSeq(s, 1, 1) = c THEN TrimLeft(SubSeq(s, 2, Len(s)), c) ELSE s

\* strings.Split(s, c): the pieces between the separators
RECURSIVE Split(_, _)
SplitAt(s, c, i) ==
    IF i = 0 THEN <<s>>
    ELSE <<SubSeq(s, 1, i - 1)>> \o Split(SubSeq(s, i + 1, Len(s)), c)

Split(s, c) == SplitAt(s, c, Index(s, c))

\* strings.SplitN(s, c, 2): at most two pieces
SplitN2At(s, i) == IF i = 0 THEN <<s>> ELSE <<SubSeq(s, 1, i - 1), SubSeq(s, i + 1, Len(s))>>

SplitN2(s, c) == SplitN2At(s, Index(s, c))

RECURSIVE Concat(_)
Concat(ss) == IF ss = <<>> THEN "" ELSE Head(ss) \o Concat(Tail(ss))

\* the byte value of a character, and the character of a byte value
Code == [c \in CharSet(Chars) |-> Codes[Index(Chars, c)]]

CharOf == [n \in {Codes[i] : i \in 1..Len(Codes)} |->
              SubSeq(Chars, CHOOSE j \in 1..Len(Codes) : Codes[j] = n, CHOOSE j \in 1..Len(Codes) : Codes[j] = n)]

\* byte-wise comparison of two strings, as sort.StringSlice orders them
RECURSIVE StrLess(_, _)
StrLess(a, b) ==
    IF b = "" THEN FALSE
    ELSE IF a = "" THEN TRUE
    ELSE IF SubSeq(a, 1, 1) = SubSeq(b, 1, 1)
         THEN StrLess(SubSeq(a, 2, Len(a)), SubSeq(b, 2, Len(b)))
    ELSE Code[SubSeq(a, 1, 1)] < Code[SubSeq(b, 1, 1)]

\* the least string of a set
Least(S) == CHOOSE x \in S : \A y \in S \ {x} : StrLess(x, y)

\* sort.StringSlice.Sort on a set of distinct strings
RECURSIVE SortStrings(_)
SortFrom(S, m) == <<m>> \o SortStrings(S \ {m})

SortStrings(S) == IF S = {} THEN <<>> ELSE SortFrom(S, Least(S))

Digits == "0123456789"

\* strconv.Atoi: decimal digits after an optional sign
RECURSIVE AtoiAcc(_, _)
AtoiAcc(s, acc) ==
    IF s = "" THEN acc
    ELSE AtoiAcc(SubSeq(s, 2, Len(s)), acc * 10 + (Index(Digits, SubSeq(s, 1, 1)) - 1))

HasSign(s) == s # "" /\ SubSeq(s, 1, 1) \in {"+", "-"}

Magnitude(s) == IF HasSign(s) THEN SubSeq(s, 2, Len(s)) ELSE s

\* whether Atoi returns no error
IsInt(s) == Magnitude(s) # "" /\ \A i \in 1..Len(Magnitude(s)) : Contains(Digits, SubSeq(Magnitude(s), i, i))

Atoi(s) == IF SubSeq(s, 1, 1) = "-" THEN 0 - AtoiAcc(Magnitude(s), 0) ELSE AtoiAcc(Magnitude(s), 0)

-----------------------------------------------------------------------------
(* net/url *)

\* the value of a hexadecimal digit, 16 for any other character
HexVal ==
    [c \in CharSet(Chars) |->
        IF Contains(HexDigits, c) THEN Index(HexDigits, c) - 1
        ELSE IF Contains("abcdef", c) THEN Index("abcdef", c) + 9
        ELSE 16]

Hex(n) == SubSeq(HexDigits, (n \div 16) + 1, (n \div 16) + 1) \o SubSeq(HexDigits, (n % 16) + 1, (n % 16) + 1)

Unreserved == CharSet("ABCDEFGHIJKLMNOPQRSTUVWXYZabcdefghijklmnopqrstuvwxyz0123456789-_.")

\* what url.QueryEscape makes of a character: unreserved characters stay, a space
\* becomes '+', the rest %XX
EscapeChar ==
    [c \in CharSet(Chars) |->
        IF c \in Unreserved THEN c
        ELSE IF c = " " THEN "+"
        ELSE "%" \o Hex(Code[c])]

\* url.QueryEscape
RECURSIVE QueryEscape(_)
QueryEscape(s) ==
    IF s = "" THEN ""
    ELSE EscapeChar[SubSeq(s, 1, 1)] \o QueryEscape(SubSeq(s, 2, Len(s)))

\* whether url.QueryUnescape accepts s: every '%' is followed by two hex digits
RECURSIVE UnescapeOK(_)
UnescapeOK(s) ==
    IF s = "" THEN TRUE
    ELSE IF SubSeq(s, 1, 1) = "%"
         THEN /\ Len(s) >= 3
              /\ HexVal[SubSeq(s, 2, 2)] < 16
              /\ HexVal[SubSeq(s, 3, 3)] < 16
              /\ UnescapeOK(SubSeq(s, 4, Len(s)))
         ELSE UnescapeOK(SubSeq(s, 2, Len(s)))

\* url.QueryUnescape: '+' becomes a space, %XX the byte it names
RECURSIVE QueryUnescape(_)
QueryUnescape(s) ==
    IF s = "" THEN ""
    ELSE IF SubSeq(s, 1, 1) = "%"
         THEN CharOf[HexVal[SubSeq(s, 2, 2)] * 16 + HexVal[SubSeq(s, 3, 3)]]
              \o QueryUnescape(SubSeq(s, 4, Len(s)))
    ELSE IF SubSeq(s, 1, 1) = "+" THEN " " \o QueryUnescape(SubSeq(s, 2, Len(s)))
    ELSE SubSeq(s, 1, 1) \o QueryUnescape(SubSeq(s, 2, Len(s)))

\* one key=value piece of a raw query: the pair it holds, none when the piece is
\* empty or its key or value does not unescape
ParsePair(k, v) ==
    IF UnescapeOK(k) /\ UnescapeOK(v)
    THEN <<[key |-> QueryUnescape(k), val |-> QueryUnescape(v)]>>
    ELSE <<>>

ParsePiece(p, eq) == IF p = "" THEN <<>> ELSE ParsePair(CutBefore(p, eq), CutAfter(p, eq))

\* url.ParseQuery on the pieces of a raw query: the (key, value) pairs in order
RECURSIVE ParsePairs(_)
ParsePairs(pieces) ==
    IF pieces = <<>> THEN <<>>
    ELSE ParsePiece(Head(pieces), Index(Head(pieces), "=")) \o ParsePairs(Tail(pieces))

\* url.URL.Query(): the pairs of a raw query
ParseQuery(rawQuery) == ParsePairs(Split(rawQuery, "&"))

\* url.Values[k]: the values of the key, in the order they appear
Vals(pairs) == [i \in 1..Len(pairs) |-> pairs[i].val]

Values(form, k) == Vals(SelectSeq(form, LAMBDA p : p.key = k))

\* url.Values.Get: the first value of the key, "" when the key is absent
First(vs) == IF vs = <<>> THEN "" ELSE vs[1]

Get(form, k) == First(Values(form, k))

Keys(form) == {form[i].key : i \in 1..Len(form)}

\* url.Parse of an absolute URL scheme://host/path?query
ParseHostPath(scheme, noq, rawQuery, slash) ==
    [Scheme   |-> scheme,
     Host     |-> CutBefore(noq, slash),
     Path     |-> IF slash = 0 THEN "" ELSE SubSeq(noq, slash, Len(noq)),
     RawQuery |-> rawQuery]

ParseRest(scheme, noq, rawQuery) == ParseHostPath(scheme, noq, rawQuery, Index(noq, "/"))

ParseAfterScheme(scheme, rest, q) == ParseRest(scheme, CutBefore(rest, q), CutAfter(rest, q))

ParseScheme(u, colon) ==
    ParseAfterScheme(SubSeq(u, 1, colon - 1), SubSeq(u, colon + 3, Len(u)),
                     Index(SubSeq(u, colon + 3, Len(u)), "?"))

ParseURL(u) == ParseScheme(u, Index(u, ":"))

\* url.URL.RequestURI(): the path and, when there is one, the raw query
RequestURI(path, rawQuery) == IF rawQuery = "" THEN path ELSE path \o "?" \o rawQuery

-----------------------------------------------------------------------------
(* Bounds and the inputs the environment draws from *)

MaxTicks == 2

MaxDigests == 2

MaxUUIDs == 1

\* what a base64 digest may hold besides letters and digits: '/', '+', and the
\* '=' padding every digest of 20 bytes ends in
SigClasses == {"A/", "B+"}

TickSteps == {300, 3600}

\* connections (calls under flow control) by external ID, and the resumption URL
\* the caller hands over for each: the second one is reached through a reverse proxy
Conns == {"C1", "C2"}

ProxyPrefix == "/px"

ResumeURLOf(c) ==
    IF c = "C1" THEN "https://mr.io/handle?connection=1"
    ELSE "https://mr.io/px/handle?connection=2"

StatusURLOf(c) ==
    IF c = "C1" THEN "https://mr.io/status" ELSE "https://mr.io/px/status"

\* call IDs the provider assigns to transferred legs, in the order it assigns them
LegPool == <<"L1", "L2">>

Legs == {LegPool[i] : i \in 1..Len(LegPool)}

\* statuses of a status callback: two the status table maps, one it does not, the final one
Statuses == {"answered", "timeout", "started", "completed"}

\* what uuids.New() returns, call after call: recording correlation UUIDs and conversation names
UUIDPool == <<"u1", "u2", "u3">>

UUIDs == {UUIDPool[i] : i \in 1..Len(UUIDPool)}

RecordingURLs == {"https://nx.io/r1", "https://nx.io/r 2"}

Durations == {"", "42"}

-----------------------------------------------------------------------------
(* Program constants *)

gatherTimeout == 30

recordTimeout == 600

TransferTTL == 3600

StatusTTL == 300

RecordingTTL == 300

StatusNoContent == 204

StatusCreated == 201

DefaultMaxDigits == 20

CallURL == "https://api.nexmo.com/v1/calls"

statusFailed == "failed"

IgnoreSignatures == FALSE

\* flows.DialStatus values
DialStatusAnswered == "answered"

DialStatusNoAnswer == "no_answer"

DialStatusBusy == "busy"

DialStatusFailed == "failed"

\* callStatusMap[s], "" for a status the table does not hold
callStatusMap(s) ==
    CASE s = "cancelled" -> DialStatusFailed
      [] s = "answered"  -> DialStatusAnswered
      [] s = "busy"      -> DialStatusBusy
      [] s = "timeout"   -> DialStatusNoAnswer
      [] s = "failed"    -> DialStatusFailed
      [] s = "rejected"  -> DialStatusNoAnswer
      [] s = "canceled"  -> DialStatusFailed
      [] OTHER           -> ""

-----------------------------------------------------------------------------
(* The correlation store (redis) *)

Range(f) == {f[x] : x \in DOMAIN f}

\* GET: the value of a live key, Nil (redis.ErrNil) when there is none
RedisGet(st, k) == IF k \in DOMAIN st THEN st[k].val ELSE Nil

\* a variant of RedisSetEx that appends the value to the one the key holds (APPEND)
RedisAppendEx(st, k, ttl, v) ==
    [kk \in DOMAIN st \cup {k} |->
        IF kk # k THEN st[kk]
        ELSE [val |-> (IF k \in DOMAIN st THEN st[k].val ELSE "") \o v, exp |-> now + ttl]]

\* SETEX key ttl value: overwrite, with the expiry counted from now
RedisSetEx(st, k, ttl, v) ==
    [kk \in DOMAIN st \cup {k} |->
        IF kk = k THEN [val |-> v, exp |-> now + ttl] ELSE st[kk]]

\* DEL key
RedisDel(st, k) == [kk \in DOMAIN st \ {k} |-> st[kk]]

\* the entries redis still holds at time t
Unexpired(st, t) == [kk \in {k \in DOMAIN st : st[k].exp > t} |-> st[kk]]

DialKey(legUUID) == "dial_" \o legUUID

DialStatusKey(callUUID) == "dial_status_" \o callUUID

RecordingKey(recordingUUID) == "recording_" \o recordingUUID

-----------------------------------------------------------------------------
(* Signer *)

\* what one key contributes to the bytes hashed: the key and its values, nothing for sig
SigningPart(form, k) == IF k = "sig" THEN "" ELSE k \o Concat(Values(form, k))

SigningQuery(form, keys) == Concat([i \in 1..Len(keys) |-> SigningPart(form, keys[i])])

\* a variant of SigningBytes that takes the parameters in the order they appear
SigningBytesInOrder(url, form) ==
    url.Scheme \o "://" \o url.Host \o url.Path
    \o Concat([i \in 1..Len(form) |-> IF form[i].key = "sig" THEN "" ELSE form[i].key \o form[i].val])

SigningBytes(url, form) ==
    url.Scheme \o "://" \o url.Host \o url.Path \o SigningQuery(form, SortStrings(Keys(form)))

SigningURL(url) == SigningBytes(url, ParseQuery(url.RawQuery))

\* the bytes calculateSignature hashes for the URL u
SigningInput(u) == SigningURL(ParseURL(u))

\* the base64 text of the digest of an input hashed for the first time: HMAC-SHA1
\* is taken to be collision free, so it differs from every digest so far; what
\* it holds besides that is the environment's choice c
FreshDigest(h, c) == c \o SubSeq(Digits, Cardinality(DOMAIN h) + 2, Cardinality(DOMAIN h) + 2) \o "="

\* the digest of the signing input in: the one it had before, or a fresh one
Digest(h, c, in) ==
    IF in \in DOMAIN h THEN [sig |-> h[in], hmac |-> h]
    ELSE [sig |-> FreshDigest(h, c), hmac |-> h @@ (in :> FreshDigest(h, c))]

\* calculateSignature(u) with the digests h known so far: [sig, hmac]
calculateSignature(h, c, u) == Digest(h, c, SigningInput(u))

-----------------------------------------------------------------------------
(* Requests *)

NoBody == [kind |-> "none"]

MalformedBody == [kind |-> "malformed"]

JSONBody(obj) == [kind |-> "json", obj |-> obj]

HasKey(body, key) == body.kind = "json" /\ key \in DOMAIN body.obj

\* jsonparser.GetString(body, key), "" when the key is absent
GetString(body, key) == IF HasKey(body, key) THEN body.obj[key] ELSE ""

\* the http.Request of a POST to an external URL, as the server hands it on:
\* behind the reverse proxy it carries its external request URI in
\* X-Forwarded-Path and a path without the proxy's prefix; no form is parsed yet
Received(url, body, proxied) ==
    [Host          |-> url.Host,
     Path          |-> IF proxied
                       THEN SubSeq(url.Path, Len(ProxyPrefix) + 1, Len(url.Path))
                       ELSE url.Path,
     RawQuery      |-> url.RawQuery,
     Form          |-> <<>>,
     ForwardedPath |-> IF proxied THEN RequestURI(url.Path, url.RawQuery) ELSE "",
     Body          |-> body]

ReceivedAt(url, body) == Received(url, body, HasPrefix(url.Path, ProxyPrefix \o "/"))

\* http.Request.ParseForm, which the web layer calls on receipt, before any
\* method of the client: the form is the query as it was received
ParseForm(r) == [r EXCEPT !.Form = ParseQuery(r.RawQuery)]

NewRequest(u, body) == ParseForm(ReceivedAt(ParseURL(u), body))

\* a variant of ExternalURL that takes no notice of X-Forwarded-Path
InternalURL(r) == "https://" \o r.Host \o RequestURI(r.Path, r.RawQuery)

\* the URL the signature of a request is checked against, and the URL the
\* polling input is sent back to
ExternalURL(r) ==
    "https://" \o r.Host
    \o (IF r.ForwardedPath # "" THEN r.ForwardedPath ELSE RequestURI(r.Path, r.RawQuery))

\* what the provider answers to a request of the adapter
Response(code, obj) == [err |-> FALSE, code |-> code, body |-> JSONBody(obj)]

TransportError == [err |-> TRUE, code |-> 0, body |-> NoBody]

\* makeRequest: the request as sent
makeRequest(method, sendURL, body) == [method |-> method, url |-> sendURL, body |-> body]

\* what a handler hands back: nothing, an acknowledgement (MakeEmptyResponseBody),
\* an NCCO script, a call ID
NoResponse == [kind |-> "none"]

MakeEmptyResponseBody(msg) == [kind |-> "message", _message |-> msg]

Script(actions) == [kind |-> "ncco", actions |-> actions]

CallID(id) == [kind |-> "call", id |-> id]

\* what a handler returns and does: the response body, the error (Nil: none),
\* the store and the digests after it, the requests it sent
Outcome(body, err, st, h, sent) ==
    [body |-> body, err |-> err, store |-> st, hmac |-> h, sent |-> sent]

-----------------------------------------------------------------------------
(* Leg Coordinator: PreprocessStatus *)

\* the transfer request that hands the original call back to the flow
TransferBody(resumeURL) ==
    [action |-> "transfer", destination |-> [type |-> "ncco", url |-> <<resumeURL>>]]

\* the request is sent: anything but a 204 is an error
reconnect(st, h, callUUID, resumeURL, resp, sent) ==
    IF resp.err
    THEN Outcome(NoResponse, "error reconnecting flow for call", st, h, sent)
    ELSE IF resp.code # StatusNoContent
    THEN Outcome(NoResponse, "error reconnecting flow for call, received non 204 from nexmo",
                 st, h, sent)
    ELSE Outcome(MakeEmptyResponseBody("reconnected call to flow with dial status"),
                 Nil, st, h, sent)

\* the signature is appended as it is, without escaping it
appendSignature(st, callUUID, resumeURL, sg, resp) ==
    reconnect(st, sg.hmac, callUUID, resumeURL \o "&sig=" \o sg.sig, resp,
              <<makeRequest("PUT", CallURL \o "/" \o callUUID,
                            TransferBody(resumeURL \o "&sig=" \o sg.sig))>>)

signResume(st, h, callUUID, resumeURL, env) ==
    appendSignature(st, callUUID, resumeURL, calculateSignature(h, env.c1, resumeURL), env.resp)

\* a variant of completed that redirects with an empty status when none is stored
completedAnyway(st, h, callUUID, resumeURL, status, duration, env) ==
    signResume(st, h, callUUID,
               resumeURL \o "&dial_status=" \o (IF status = Nil THEN "" ELSE status)
                         \o "&dial_duration=" \o duration, env)

\* a tracked leg has completed: the original call goes back to its flow with the
\* status stored for it
completed(st, h, callUUID, resumeURL, status, duration, env) ==
    IF status = Nil
    THEN Outcome(NoResponse, "unable to find call status", st, h, <<>>)
    ELSE signResume(st, h, callUUID,
                    resumeURL \o "&dial_status=" \o status \o "&dial_duration=" \o duration, env)

\* a variant of stash that keeps the provider's status when the table has none
stashAny(st, h, callUUID, status) ==
    Outcome(MakeEmptyResponseBody("updated status for call"), Nil,
            RedisSetEx(st, DialStatusKey(callUUID), StatusTTL,
                       IF status # "" THEN status ELSE "started"), h, <<>>)

\* a tracked leg is not over: its status is kept when the status table maps it
stash(st, h, callUUID, status) ==
    IF status # ""
    THEN Outcome(MakeEmptyResponseBody("updated status for call"), Nil,
                 RedisSetEx(st, DialStatusKey(callUUID), StatusTTL, status), h, <<>>)
    ELSE Outcome(MakeEmptyResponseBody("ignoring non final status for tranfer leg"),
                 Nil, st, h, <<>>)

\* a variant of tracked that addresses the redirect to the leg that completed
trackedLeg(st, h, body, parts, env) ==
    IF GetString(body, "status") = "completed"
    THEN completed(st, h, GetString(body, "uuid"), parts[2],
                   RedisGet(st, DialStatusKey(parts[1])), GetString(body, "duration"), env)
    ELSE stash(st, h, parts[1], callStatusMap(GetString(body, "status")))

\* the callback is for a leg with a transfer entry: parts is the entry, split
tracked(st, h, body, parts, env) ==
    IF GetString(body, "status") = "completed"
    THEN completed(st, h, parts[1], parts[2], RedisGet(st, DialStatusKey(parts[1])),
                   GetString(body, "duration"), env)
    ELSE stash(st, h, parts[1], callStatusMap(GetString(body, "status")))

\* a variant of lookedUp that acknowledges a callback for a leg without a transfer entry
lookedUpAcked(st, h, body, dialContinue, env) ==
    IF dialContinue = Nil
    THEN Outcome(MakeEmptyResponseBody("ignoring status of unknown leg"), Nil, st, h, <<>>)
    ELSE tracked(st, h, body, SplitN2(dialContinue, ":"), env)

\* a variant of lookedUp that reports a leg without a transfer entry as an error
lookedUpStrict(st, h, body, dialContinue, env) ==
    IF dialContinue = Nil THEN Outcome(NoResponse, "unable to find transfer", st, h, <<>>)
    ELSE tracked(st, h, body, SplitN2(dialContinue, ":"), env)

\* dialContinue is what redis holds for the leg
lookedUp(st, h, body, dialContinue, env) ==
    IF dialContinue = Nil THEN Outcome(NoResponse, Nil, st, h, <<>>)
    ELSE tracked(st, h, body, SplitN2(dialContinue, ":"), env)

\* PreprocessStatus on a status callback with the given body. env: the provider's
\* answer to a request (resp), whether redis fails (redisErr), what a fresh
\* digest holds (c1)
PreprocessStatus(st, h, body, env) ==
    IF body.kind = "none" THEN Outcome(NoResponse, Nil, st, h, <<>>)
    ELSE IF body.kind = "malformed" THEN Outcome(NoResponse, "invalid json body", st, h, <<>>)
    ELSE IF GetString(body, "type") = "transfer"
    THEN Outcome(MakeEmptyResponseBody("ignoring conversation callback"), Nil, st, h, <<>>)
    ELSE IF GetString(body, "uuid") = "" \/ GetString(body, "status") = ""
    THEN Outcome(NoResponse, Nil, st, h, <<>>)
    ELSE IF env.redisErr THEN Outcome(NoResponse, "error looking up leg uuid", st, h, <<>>)
    ELSE lookedUp(st, h, body, RedisGet(st, DialKey(GetString(body, "uuid"))), env)

-----------------------------------------------------------------------------
(* Webhook Interpreter: ResumeForRequest *)

NoResume == [kind |-> "none"]

InputResume(input, attachment) == [kind |-> "input", input |-> input, attachment |-> attachment]

DialResume(status, duration) == [kind |-> "dial", status |-> status, duration |-> duration]

Resumed(resume) == [resume |-> resume, err |-> Nil]

NotResumed(err) == [resume |-> NoResume, err |-> err]

\* wait_type=gather: nothing when the input timed out, else the digits
gatherResume(body) ==
    IF HasKey(body, "timed_out") /\ body.obj.timed_out
    THEN Resumed(InputResume("", ""))
    ELSE Resumed(InputResume(GetString(body, "dtmf"), ""))

\* wait_type=record: the recording whose URL the query holds, if it holds one
recordResume(recordingURL) ==
    IF recordingURL = "" THEN Resumed(InputResume("", ""))
    ELSE Resumed(InputResume("", "audio:" \o recordingURL))

\* wait_type=dial: the status and the duration the query holds
dialResume(status, d) ==
    IF status = "" THEN NotResumed("unable to find dial_status in query url")
    ELSE IF d = "" THEN Resumed(DialResume(status, 0))
    ELSE IF ~IsInt(d) THEN NotResumed("non-integer duration in query url")
    ELSE Resumed(DialResume(status, Atoi(d)))

\* a variant of resumeFor that takes an unknown wait type for a wait without input
resumeForAny(waitType, body, query) ==
    IF waitType = "gather" \/ waitType = "record"
    THEN IF body.kind # "json" THEN NotResumed("unable to parse ncco request")
         ELSE IF waitType = "gather" THEN gatherResume(body)
         ELSE recordResume(Get(query, "recording_url"))
    ELSE IF waitType = "dial"
    THEN dialResume(Get(query, "dial_status"), Get(query, "dial_duration"))
    ELSE Resumed(InputResume("", ""))

\* the wait type comes from the parsed form, the values from the URL's query
resumeFor(waitType, body, query) ==
    IF waitType = "gather" \/ waitType = "record"
    THEN IF body.kind # "json" THEN NotResumed("unable to parse ncco request")
         ELSE IF waitType = "gather" THEN gatherResume(body)
         ELSE recordResume(Get(query, "recording_url"))
    ELSE IF waitType = "dial"
    THEN dialResume(Get(query, "dial_status"), Get(query, "dial_duration"))
    ELSE NotResumed("unknown wait_type")

\* ResumeForRequest: [resume, err]
ResumeForRequest(r) ==
    IF Get(r.Form, "empty") = "true" THEN Resumed(InputResume("", ""))
    ELSE resumeFor(Get(r.Form, "wait_type"), r.Body, ParseQuery(r.RawQuery))

-----------------------------------------------------------------------------
(* Leg Coordinator: PreprocessResume *)

\* NCCO actions
Talk(text, bargeIn) == [action |-> "talk", text |-> text, bargeIn |-> bargeIn]

Stream(url) == [action |-> "stream", streamUrl |-> <<url>>]

Input(maxDigits, timeout, eventURL) ==
    [action |-> "input", maxDigits |-> maxDigits, submitOnHash |-> TRUE,
     timeOut |-> timeout, eventUrl |-> <<eventURL>>, eventMethod |-> "POST"]

Record(eventURL) ==
    [action |-> "record", endOnKey |-> "#", timeOut |-> recordTimeout, endOnSilence |-> 5,
     eventUrl |-> <<eventURL>>, eventMethod |-> "POST"]

Conversation(name) == [action |-> "conversation", name |-> name]

\* what PreprocessResume returns and does: the response body, the error (Nil:
\* none), the store after it and the request as it leaves it
ResumeOutcome(body, err, st, r) == [body |-> body, err |-> err, store |-> st, request |-> r]

\* a variant of polled that leaves the entry it found in redis
polledKept(st, r, redisKey, recordingURL) ==
    IF recordingURL # Nil /\ recordingURL # ""
    THEN ResumeOutcome(NoResponse, Nil, st,
                       [r EXCEPT !.RawQuery = "&recording_url=" \o QueryEscape(recordingURL)])
    ELSE ResumeOutcome(Script(<<Input(0, 1, ExternalURL(r))>>), Nil, st, r)

\* the poll found what redis holds for the recording: a URL goes into the
\* request's query and the entry is deleted; without one the same poll is asked for again
polled(st, r, redisKey, recordingURL) ==
    IF recordingURL # Nil /\ recordingURL # ""
    THEN ResumeOutcome(NoResponse, Nil, RedisDel(st, redisKey),
                       [r EXCEPT !.RawQuery = "&recording_url=" \o QueryEscape(recordingURL)])
    ELSE ResumeOutcome(Script(<<Input(0, 1, ExternalURL(r))>>), Nil, st, r)

\* wait_type=record
pollRecording(st, r, recordingUUID, env) ==
    IF recordingUUID = ""
    THEN ResumeOutcome(NoResponse, "record resume without recording_uuid", st, r)
    ELSE IF env.redisErr
    THEN ResumeOutcome(NoResponse, "error getting recording url from redis", st, r)
    ELSE polled(st, r, RecordingKey(recordingUUID), RedisGet(st, RecordingKey(recordingUUID)))

\* a variant of storeRecording that acknowledges the recording and does not keep it
storeRecordingDropped(st, r, recordingUUID, env) ==
    IF recordingUUID = ""
    THEN ResumeOutcome(NoResponse, "recording_url resume without recording_uuid", st, r)
    ELSE ResumeOutcome(MakeEmptyResponseBody("inserted recording url for uuid"), Nil, st, r)

\* wait_type=recording_url: the URL in the body is kept under the recording's UUID
storeRecording(st, r, recordingUUID, env) ==
    IF recordingUUID = ""
    THEN ResumeOutcome(NoResponse, "recording_url resume without recording_uuid", st, r)
    ELSE IF ~HasKey(r.Body, "recording_url")
    THEN ResumeOutcome(NoResponse, "invalid json body", st, r)
    ELSE IF r.Body.obj.recording_url = ""
    THEN ResumeOutcome(NoResponse, "no recording_url found in request", st, r)
    ELSE IF env.redisErr
    THEN ResumeOutcome(NoResponse, "error inserting recording URL into redis", st, r)
    ELSE ResumeOutcome(MakeEmptyResponseBody("inserted recording url for uuid"), Nil,
                       RedisSetEx(st, RecordingKey(recordingUUID), RecordingTTL,
                                  r.Body.obj.recording_url), r)

preprocess(st, r, waitType, recordingUUID, env) ==
    IF waitType = "record" THEN pollRecording(st, r, recordingUUID, env)
    ELSE IF waitType = "recording_url" THEN storeRecording(st, r, recordingUUID, env)
    ELSE ResumeOutcome(NoResponse, Nil, st, r)

queried(st, r, query, env) ==
    preprocess(st, r, Get(query, "wait_type"), Get(query, "recording_uuid"), env)

\* PreprocessResume on the request r. env: whether redis fails (redisErr)
PreprocessResume(st, r, env) == queried(st, r, ParseQuery(r.RawQuery), env)

-----------------------------------------------------------------------------
(* Signer: ValidateRequestSignature *)

\* a variant of compareSignatures that lets a signature that does not match pass
compareSignaturesLax(actual, expected) == [err |-> Nil, hmac |-> expected.hmac]

compareSignatures(actual, expected) ==
    IF expected.sig # actual
    THEN [err |-> "mismatch in signatures", hmac |-> expected.hmac]
    ELSE [err |-> Nil, hmac |-> expected.hmac]

\* a variant of checkSignature that lets a request without a signature pass
checkSignatureOpen(h, c, r, actual) ==
    IF actual = "" THEN [err |-> Nil, hmac |-> h]
    ELSE compareSignatures(actual, calculateSignature(h, c, ExternalURL(r)))

\* ValidateRequestSignature: [err, hmac]; c is what the digest of an input not
\* hashed before holds
checkSignature(h, c, r, actual) ==
    IF actual = "" THEN [err |-> "missing request sig", hmac |-> h]
    ELSE compareSignatures(actual, calculateSignature(h, c, ExternalURL(r)))

ValidateRequestSignature(h, c, r) ==
    IF IgnoreSignatures THEN [err |-> Nil, hmac |-> h]
    ELSE IF ~HasSuffix(r.Path, "handle") THEN [err |-> Nil, hmac |-> h]
    ELSE checkSignature(h, c, r, Get(ParseQuery(r.RawQuery), "sig"))

-----------------------------------------------------------------------------
(* Script Builder: responseForSprint, WriteSessionResponse *)

\* the channel's own address
ChannelAddress == "+15559876543"

Phone(number) == [type |-> "phone", number |-> number]

\* waits of a session: none, a message wait with a hint, a dial wait, another wait
NoWait == [kind |-> "none"]

DigitsWait(count) == [kind |-> "msg", hint |-> "digits", count |-> count]

AudioWait == [kind |-> "msg", hint |-> "audio"]

ImageWait == [kind |-> "msg", hint |-> "image"]

DialWait(urn, timeoutSeconds) == [kind |-> "dial", urn |-> urn, timeout |-> timeoutSeconds]

OtherWait == [kind |-> "other"]

\* a message wait whose hint is nil
NoHintWait == [kind |-> "msg", hint |-> Nil]

\* a call that does not return: wait.Hint().Type() on a nil hint
Panic == "panic: invalid memory address or nil pointer dereference"

\* events of a sprint
IVRCreated(text, attachments) == [type |-> "ivr_created", text |-> text, attachments |-> attachments]

OtherEvent == [type |-> "other"]

\* a URL and then its own signature, escaped
Signed(u, sg) == [url |-> u \o "&sig=" \o QueryEscape(sg.sig), hmac |-> sg.hmac]

SignedURL(h, c, u) == Signed(u, calculateSignature(h, c, u))

\* the wait's part of the script: the error, the wait actions, the store and
\* the digests after it, the requests sent
WaitResult(err, actions, st, h, sent) ==
    [err |-> err, actions |-> actions, store |-> st, hmac |-> h, sent |-> sent]

\* a digits hint: one input that gathers the digits
digitsHint(st, w, ev) ==
    WaitResult(Nil,
               <<Input(IF w.count # NoInt THEN w.count ELSE DefaultMaxDigits, gatherTimeout, ev.url)>>,
               st, ev.hmac, <<>>)

\* a variant of audioActions that polls before it records
audioActionsSwapped(st, ev1, ev2) ==
    WaitResult(Nil, <<Input(0, 1, ev2.url), Record(ev1.url)>>, st, ev2.hmac, <<>>)

\* an audio hint: a record action that reports the recording under a new UUID,
\* and a one second input that polls for it
audioActions(st, ev1, ev2) ==
    WaitResult(Nil, <<Record(ev1.url), Input(0, 1, ev2.url)>>, st, ev2.hmac, <<>>)

audioInput(st, resumeURL, recordingUUID, ev1, c2) ==
    audioActions(st, ev1,
                 SignedURL(ev1.hmac, c2,
                           resumeURL \o "&wait_type=record&recording_uuid=" \o recordingUUID))

audioHint(st, h, resumeURL, recordingUUID, env) ==
    audioInput(st, resumeURL, recordingUUID,
               SignedURL(h, env.c1,
                         resumeURL \o "&wait_type=recording_url&recording_uuid=" \o recordingUUID),
               env.c2)

\* a variant of TransferCallRequest that gives the new call a conversation of its own
TransferCallRequestApart(wait, conversationUUID) ==
    [to   |-> <<Phone(TrimLeft(wait.urn, "+"))>>,
     from |-> Phone(TrimLeft(ChannelAddress, "+")),
     ncco |-> <<Conversation(conversationUUID \o "b")>>,
     ringing_timer |-> IF wait.timeout # NoInt THEN wait.timeout ELSE 0]

\* the request that creates the call of a transfer
TransferCallRequest(wait, conversationUUID) ==
    [to   |-> <<Phone(TrimLeft(wait.urn, "+"))>>,
     from |-> Phone(TrimLeft(ChannelAddress, "+")),
     ncco |-> <<Conversation(conversationUUID)>>,
     ringing_timer |-> IF wait.timeout # NoInt THEN wait.timeout ELSE 0]

\* a dial wait: the call joins a conversation, a new call to the number is created
\* in it, and the new call's ID is kept with the original call's ID and its
\* resumption URL
dialCreated(st, h, conn, resumeURL, conversationUUID, env, sent) ==
    IF env.resp.err THEN WaitResult("error trying to start call", <<>>, st, h, sent)
    ELSE IF env.resp.code # StatusCreated
    THEN WaitResult("received non 200 status for call start", <<>>, st, h, sent)
    ELSE IF ~HasKey(env.resp.body, "uuid")
    THEN WaitResult("error reading call id from transfer", <<>>, st, h, sent)
    ELSE IF env.redisErr
    THEN WaitResult("error inserting transfer ID into redis", <<>>, st, h, sent)
    ELSE WaitResult(Nil, <<Conversation(conversationUUID)>>,
                    RedisSetEx(st, DialKey(env.resp.body.obj.uuid), TransferTTL,
                               conn \o ":" \o resumeURL \o "&wait_type=dial"),
                    h, sent)

dialWait(st, h, conn, resumeURL, w, env) ==
    dialCreated(st, h, conn, resumeURL, env.uuid, env,
                <<makeRequest("POST", CallURL, TransferCallRequest(w, env.uuid))>>)

\* the wait's part of responseForSprint
WaitActions(st, h, conn, resumeURL, w, env) ==
    IF w.kind = "none" THEN WaitResult(Nil, <<>>, st, h, <<>>)
    ELSE IF w.kind = "msg" /\ w.hint = "digits"
    THEN digitsHint(st, w, SignedURL(h, env.c1, resumeURL \o "&wait_type=gather"))
    ELSE IF w.kind = "msg" /\ w.hint = "audio"
    THEN audioHint(st, h, resumeURL, env.uuid, env)
    ELSE IF w.kind = "msg" /\ w.hint = Nil THEN WaitResult(Panic, <<>>, st, h, <<>>)
    ELSE IF w.kind = "msg"
    THEN WaitResult("unable to use wait in IVR call, unknow hint type", <<>>, st, h, <<>>)
    ELSE IF w.kind = "dial" THEN dialWait(st, h, conn, resumeURL, w, env)
    ELSE WaitResult("unable to use wait in IVR call, unknow wait type", <<>>, st, h, <<>>)

\* a variant of eventActions that streams the attachments last to first
eventActionsReversed(e, isWaitInput) ==
    IF e.type # "ivr_created" THEN <<>>
    ELSE IF Len(e.attachments) = 0 THEN <<Talk(e.text, isWaitInput)>>
    ELSE [i \in 1..Len(e.attachments) |-> Stream(e.attachments[Len(e.attachments) + 1 - i])]

\* what one event adds to the script
eventActions(e, isWaitInput) ==
    IF e.type # "ivr_created" THEN <<>>
    ELSE IF Len(e.attachments) = 0 THEN <<Talk(e.text, isWaitInput)>>
    ELSE [i \in 1..Len(e.attachments) |-> Stream(e.attachments[i])]

\* the events' part of responseForSprint: the talk and stream actions, in order
RECURSIVE EventActions(_, _)
EventActions(es, isWaitInput) ==
    IF es = <<>> THEN <<>>
    ELSE eventActions(Head(es), isWaitInput) \o EventActions(Tail(es), isWaitInput)

\* a variant of assemble that lets any wait action enable barge-in
assembleAnyWait(es, wa) ==
    IF wa.err # Nil THEN Outcome(NoResponse, wa.err, wa.store, wa.hmac, wa.sent)
    ELSE Outcome(Script(EventActions(es, Len(wa.actions) > 0) \o wa.actions),
                 Nil, wa.store, wa.hmac, wa.sent)

\* the script: the events' actions and then the wait's
assemble(es, wa) ==
    IF wa.err # Nil THEN Outcome(NoResponse, wa.err, wa.store, wa.hmac, wa.sent)
    ELSE Outcome(Script(EventActions(es, Len(wa.actions) > 0 /\ wa.actions[1].action = "input")
                        \o wa.actions),
                 Nil, wa.store, wa.hmac, wa.sent)

\* responseForSprint: the script (body) or an error
responseForSprint(st, h, conn, resumeURL, w, es, env) ==
    assemble(es, WaitActions(st, h, conn, resumeURL, w, env))

\* a session: its status, whether it has a sprint, the sprint's events and its wait
Session(status, sprint, events, wait) ==
    [status |-> status, sprint |-> sprint, events |-> events, wait |-> wait]

\* errors.Wrap: the message and then the error's text; a panic is not an error
\* that is returned, and passes
wrapped(out, message) ==
    IF out.err \in {Nil, Panic} THEN out
    ELSE Outcome(out.body, message \o ": " \o out.err, out.store, out.hmac, out.sent)

\* WriteSessionResponse: the script written to the response (body) or an error
WriteSessionResponse(st, h, conn, session, resumeURL, env) ==
    IF session.status = "F"
    THEN Outcome(NoResponse, "cannot write IVR response for failed session", st, h, <<>>)
    ELSE IF ~session.sprint
    THEN Outcome(NoResponse, "cannot write IVR response for session with no sprint", st, h, <<>>)
    ELSE wrapped(responseForSprint(st, h, conn, resumeURL, session.wait, session.events, env),
                 "unable to build response for IVR call")

-----------------------------------------------------------------------------
(* Client Facade: RequestCall *)

\* the body of the call creation request
CallRequest(number, answerURL, eventURL) ==
    [to            |-> <<Phone(TrimLeft(number, "+"))>>,
     from          |-> Phone(TrimLeft(ChannelAddress, "+")),
     answer_url    |-> <<answerURL>>,
     answer_method |-> "POST",
     event_url     |-> <<eventURL>>,
     event_method  |-> "POST"]

\* a variant of callPlaced that does not look at the status of the answer
callPlacedUnchecked(st, h, resp, sent) ==
    IF resp.err THEN Outcome(NoResponse, "error trying to start call", st, h, sent)
    ELSE IF resp.code # StatusCreated
    THEN Outcome(NoResponse, "received non 200 status for call start", st, h, sent)
    ELSE IF GetString(resp.body, "uuid") = ""
    THEN Outcome(NoResponse, "unable to read call uuid", st, h, sent)
    ELSE Outcome(CallID(resp.body.obj.uuid), Nil, st, h, sent)

\* the provider has answered the request
callPlaced(st, h, resp, sent) ==
    IF resp.err THEN Outcome(NoResponse, "error trying to start call", st, h, sent)
    ELSE IF resp.code # StatusCreated
    THEN Outcome(NoResponse, "received non 200 status for call start", st, h, sent)
    ELSE IF GetString(resp.body, "uuid") = ""
    THEN Outcome(NoResponse, "unable to read call uuid", st, h, sent)
    ELSE IF GetString(resp.body, "status") = statusFailed
    THEN Outcome(NoResponse, "call status returned as failed", st, h, sent)
    ELSE Outcome(CallID(resp.body.obj.uuid), Nil, st, h, sent)

callSigned(st, number, resumeURL, statusURL, a, e, resp) ==
    callPlaced(st, e.hmac, resp,
               <<makeRequest("POST", CallURL,
                             CallRequest(number,
                                         resumeURL \o "&sig=" \o QueryEscape(a.sig),
                                         statusURL \o "?sig=" \o QueryEscape(e.sig)))>>)

callAnswerSigned(st, number, resumeURL, statusURL, a, env) ==
    callSigned(st, number, resumeURL, statusURL, a,
               calculateSignature(a.hmac, env.c2, statusURL), env.resp)

\* RequestCall: the call ID or an error
RequestCall(st, h, number, resumeURL, statusURL, env) ==
    callAnswerSigned(st, number, resumeURL, statusURL,
                     calculateSignature(h, env.c1, resumeURL), env)

-----------------------------------------------------------------------------
(* The web layer: a resume webhook is checked, preprocessed and interpreted *)

\* what becomes of a resume webhook: the response body, the error, the store
\* after it, the resume handed to the flow engine (NoResume: none)
Handled(body, err, st, resume) == [body |-> body, err |-> err, store |-> st, resume |-> resume]

interpreted(p, res) == Handled(p.body, res.err, p.store, res.resume)

preprocessed(p) ==
    IF p.err # Nil \/ p.body.kind # "none" THEN Handled(p.body, p.err, p.store, NoResume)
    ELSE interpreted(p, ResumeForRequest(p.request))

validated(st, r, v, env) ==
    IF v.err # Nil THEN Handled(NoResponse, v.err, st, NoResume)
    ELSE preprocessed(PreprocessResume(st, r, env))

handleResume(st, h, r, env) == validated(st, r, ValidateRequestSignature(h, env.c1, r), env)

-----------------------------------------------------------------------------
(* The state machine *)

\* the polls that are handled step by step, by the goroutine that handles each
Pollers == {"P1", "P2"}

Init ==
    /\ store = <<>>
    /\ now = 0
    /\ hmac = <<>>
    /\ requests = {}
    /\ ticks = 0
    /\ emitted = {}
    /\ issued = 0
    /\ assigned = 0
    /\ last = [op |-> "init"]
    /\ seen = [l \in Legs |-> {}]
    /\ recent = [c \in Conns |-> ""]
    /\ rec = [u \in UUIDs |-> [delivered |-> "", resumed |-> ""]]
    /\ polls = [p \in Pollers |-> [pc |-> "idle"]]
    /\ batch = [pc |-> "idle"]

\* a URL handed to the provider: the action or request it is part of, and the
\* recording UUID it carries, if any
Emit(url, from, tag) == [url |-> url, from |-> from, tag |-> tag]

\* the event URLs of a script
EventURLs(actions, tag) ==
    {Emit(actions[i].eventUrl[1],
          IF actions[i].action = "record" THEN "record"
          ELSE IF actions[i].timeOut = 1 THEN "poll" ELSE "gather",
          tag) :
        i \in {j \in 1..Len(actions) : "eventUrl" \in DOMAIN actions[j]}}

\* the legs whose transfer entry is live in the store st
LiveLegs(st) == {l \in Legs : DialKey(l) \in DOMAIN st}

\* the resumption URL kept in the transfer entries of the connection c
DialURLOf(c) == ResumeURLOf(c) \o "&wait_type=dial"

\* the original call of a leg with a live transfer entry
CallOf(st, l) == CHOOSE c \in Conns : st[DialKey(l)].val = c \o ":" \o DialURLOf(c)

\* whether the body is a status callback with this status for the leg l, live in st
StatusFor(body, st, l) ==
    /\ GetString(body, "type") # "transfer"
    /\ HasKey(body, "status")
    /\ GetString(body, "uuid") = l
    /\ l \in LiveLegs(st)

\* time passes: redis drops the entries whose expiry is reached
Tick(d) ==
    /\ ticks < MaxTicks
    /\ ticks' = ticks + 1
    /\ now' = now + d
    /\ store' = Unexpired(store, now + d)
    /\ seen' = [l \in Legs |->
                  IF l \in LiveLegs(store) \ LiveLegs(Unexpired(store, now + d)) THEN {} ELSE seen[l]]
    /\ last' = [op |-> "Tick", d |-> d]
    /\ UNCHANGED <<hmac, requests, emitted, issued, assigned, recent, rec, polls, batch>>

\* the next value of uuids.New(), Nil when the model has no more
NextUUID == IF issued < MaxUUIDs /\ issued < Len(UUIDPool) THEN UUIDPool[issued + 1] ELSE Nil

\* the next call ID the provider assigns, Nil when the model has no more
NextLeg == IF assigned < Len(LegPool) THEN LegPool[assigned + 1] ELSE Nil

\* the environment of one handler call: the provider's answer to the request the
\* handler may send, whether redis fails, what the digests of inputs hashed for
\* the first time hold, the next UUID
Env(resp, redisErr, c1, c2) ==
    [resp |-> resp, redisErr |-> redisErr, c1 |-> c1, c2 |-> c2, uuid |-> NextUUID]

\* an environment without faults, to see what a call asks of its environment
Quiet(resps) == Env(CHOOSE r \in resps : ~r.err, FALSE, "A/", "A/")

\* the environments of a handler call that make a difference to it: the answers
\* of the provider matter only to a call that sends a request, the digests only
\* to a call that hashes a new input. probe is the call's outcome under
\* Quiet(resps), n the number of URLs the handler may sign
Envs(probe, resps, n, classes) ==
    {Env(r, FALSE, c1, c2) :
        r  \in IF probe.sent # <<>> THEN resps ELSE {Quiet(resps).resp},
        c1 \in IF probe.hmac # hmac THEN classes ELSE {"A/"},
        c2 \in IF probe.hmac # hmac /\ n > 1 THEN classes ELSE {"A/"}}

\* the provider's answers to a call creation request
CreateResponses ==
    (IF NextLeg = Nil THEN {}
     ELSE {Response(StatusCreated, [uuid |-> NextLeg, status |-> "started"])})
    \cup {Response(500, <<>>)}

\* the provider's answers to a call update request
UpdateResponses == {Response(StatusNoContent, <<>>), Response(404, <<>>)}

\* a handler's outcome becomes the next state
Apply(out) ==
    /\ Cardinality(DOMAIN out.hmac) <= MaxDigests
    /\ store' = out.store
    /\ hmac' = out.hmac
    /\ requests' = requests \cup Range(out.sent)

\* whether rendering the session reaches a call of uuids.New()
UsesUUID(session) ==
    /\ session.status # "F"
    /\ session.sprint
    /\ \/ session.wait.kind = "dial"
       \/ session.wait.kind = "msg" /\ session.wait.hint = "audio"

\* the flow engine has run a sprint of connection conn: the script is written
Written(conn, session, env, out) ==
    /\ UsesUUID(session) => env.uuid # Nil
    /\ Apply(out)
    /\ issued' = IF UsesUUID(session) THEN issued + 1 ELSE issued
    /\ assigned' = IF out.sent # <<>> /\ HasKey(env.resp.body, "uuid")
                   THEN assigned + 1 ELSE assigned
    /\ emitted' = IF out.err = Nil THEN emitted \cup EventURLs(out.body.actions, env.uuid)
                  ELSE emitted
    /\ last' = [op |-> "WriteSessionResponse", conn |-> conn, session |-> session,
                body |-> out.body, err |-> out.err, sent |-> out.sent]
    /\ UNCHANGED <<now, ticks, seen, recent, rec, polls, batch>>

WriteResponse(conn, session, env) ==
    Written(conn, session, env,
            WriteSessionResponse(store, hmac, conn, session, ResumeURLOf(conn), env))

\* the sprints of the sessions in S are rendered for the connections in C
Render(C, S, n, classes) ==
    \E c \in C, s \in S :
        \E e \in Envs(WriteSessionResponse(store, hmac, c, s, ResumeURLOf(c), Quiet(CreateResponses)),
                      CreateResponses, n, classes) :
            WriteResponse(c, s, e)

\* what a status is to the leg coordinator: final, kept until the final one, or neither
StatusKind(s) ==
    IF s = "completed" THEN {"completed"}
    ELSE IF callStatusMap(s) # "" THEN {"mapped"}
    ELSE {}

\* the provider reports the status of a call
StatusHandled(body, out) ==
    /\ Apply(out)
    /\ seen' = [l \in Legs |->
                  IF StatusFor(body, store, l) THEN seen[l] \cup StatusKind(body.obj.status)
                  ELSE seen[l]]
    /\ recent' = [c \in Conns |->
                    IF \E l \in Legs : /\ StatusFor(body, store, l)
                                       /\ StatusKind(body.obj.status) = {"mapped"}
                                       /\ CallOf(store, l) = c
                    THEN callStatusMap(body.obj.status)
                    ELSE recent[c]]
    /\ emitted' = emitted \cup {Emit(out.sent[i].body.destination.url[1], "transfer", "") :
                                    i \in 1..Len(out.sent)}
    /\ last' = [op |-> "PreprocessStatus", request |-> body, body |-> out.body,
                err |-> out.err, sent |-> out.sent]
    /\ UNCHANGED <<now, ticks, issued, assigned, rec, polls, batch>>

StatusCallback(body, env) == StatusHandled(body, PreprocessStatus(store, hmac, body, env))

\* the bodies of status callbacks
StatusBody(uuid, status, duration) ==
    IF duration = "" THEN JSONBody([uuid |-> uuid, status |-> status])
    ELSE JSONBody([uuid |-> uuid, status |-> status, duration |-> duration])

StatusBodies ==
    {NoBody, JSONBody([type |-> "transfer"])}
    \cup {StatusBody(l, s, "") : l \in Legs, s \in Statuses \ {"completed"}}
    \cup {StatusBody(l, "completed", d) : l \in Legs, d \in Durations}

\* status callbacks with the bodies in B arrive
Status(B, classes) ==
    \E b \in B :
        \E e \in Envs(PreprocessStatus(store, hmac, b, Quiet(UpdateResponses)), UpdateResponses, 1, classes) :
            StatusCallback(b, e)

\* the provider posts to a URL it was handed
ResumeHandled(e, r, out) ==
    /\ store' = out.store
    /\ emitted' = IF out.body.kind = "ncco" THEN emitted \cup EventURLs(out.body.actions, e.tag)
                  ELSE emitted
    /\ rec' = IF e.tag \notin DOMAIN rec THEN rec
              ELSE IF e.from = "record" /\ out.err = Nil /\ out.body.kind = "message"
              THEN [rec EXCEPT ![e.tag] = [delivered |-> GetString(r.Body, "recording_url"),
                                           resumed |-> ""]]
              ELSE IF out.resume.kind = "input" /\ out.resume.attachment # ""
              THEN [rec EXCEPT ![e.tag].resumed = out.resume.attachment]
              ELSE rec
    /\ last' = [op |-> "Resume", url |-> e.url, request |-> r, body |-> out.body,
                err |-> out.err, resume |-> out.resume]
    /\ UNCHANGED <<now, hmac, requests, ticks, issued, assigned, seen, recent, polls, batch>>

ResumeRequest(e, r, env) ==
    \E out \in {handleResume(store, hmac, r, env)} : ResumeHandled(e, r, out)

Resume(e, body) ==
    \E r \in {NewRequest(e.url, body)} :
        ResumeRequest(e, r, Env(TransportError, FALSE, "A/", "A/"))

\* the bodies of the provider's callbacks: an input event, a recording event
InputBody(dtmf, timedOut) == JSONBody([dtmf |-> dtmf, timed_out |-> timedOut])

RecordingBody(recordingURL) == JSONBody([recording_url |-> recordingURL])

\* sessions waiting on a transferred call, and one that cannot be rendered
DialSessions == {Session("W", TRUE, <<>>, DialWait("+15551234567", NoInt))}

RenderDial == Render({"C1"}, DialSessions, 0, {"B+"})

TransferStatus == Status(StatusBodies, {"B+"})

Clock == \E d \in TickSteps : Tick(d)

Next == RenderDial \/ TransferStatus \/ Clock

Spec == Init /\ [][Next]_vars

-----------------------------------------------------------------------------
(* The leg coordinator's claims, checked under Spec *)

\* the last step was PreprocessStatus on a 'completed' callback for the leg l,
\* whose transfer entry was live in st
CompletedFor(l, st) ==
    /\ last'.op = "PreprocessStatus"
    /\ StatusFor(last'.request, st, l)
    /\ last'.request.obj.status = "completed"

\* whether the provider has assigned the call ID l to a transferred leg
Transferred(l) == \E i \in 1..assigned : LegPool[i] = l

\* the redirect of the call c to the signed resumption URL
Redirect(c, signed) == makeRequest("PUT", CallURL \o "/" \o c, TransferBody(signed))

\* what C1 says of the redirect of the call c whose status entry holds s, on a
\* callback with the duration d: the URL u, its signing input in, the URL
\* signed that the provider is given
Resumes(s, d, signed) ==
    ResumeForRequest(NewRequest(signed, NoBody))
      = Resumed(DialResume(s, IF d = "" THEN 0 ELSE Atoi(d)))

Redirects(c, s, d, signed) ==
    /\ s = recent[c]
    /\ last'.sent = <<Redirect(c, signed)>>
    /\ Resumes(s, d, signed)

RedirectsSigned(c, s, d, u, in) ==
    /\ in \in DOMAIN hmac'
    /\ Redirects(c, s, d, u \o "&sig=" \o hmac'[in])

RedirectsTo(c, s, d, u) == RedirectsSigned(c, s, d, u, SigningInput(u))

RedirectsWith(c, s, d) ==
    RedirectsTo(c, s, d, DialURLOf(c) \o "&dial_status=" \o s \o "&dial_duration=" \o d)

\* C1: a 'completed' callback for a leg with a live transfer entry (call c, URL U)
\* and a live status entry S for c sends one PUT transfer request addressed to c,
\* not to the leg, whose destination is U with dial_status=S and the callback's
\* dial_duration appended and signed; S is what the status table makes of the
\* last status it maps that was processed for a leg of c; ResumeForRequest on
\* that URL gives a dial resume with status S and that duration.
C1_CompletedRedirects ==
    [][\A l \in Legs :
          (CompletedFor(l, store) /\ DialStatusKey(CallOf(store, l)) \in DOMAIN store)
          => RedirectsWith(CallOf(store, l), store[DialStatusKey(CallOf(store, l))].val,
                           GetString(last'.request, "duration"))]_vars

\* a 'completed' callback with a duration has redirected the original call
C1_Witness ==
    /\ last.op = "PreprocessStatus"
    /\ last.err = Nil
    /\ Len(last.sent) = 1
    /\ GetString(last.request, "duration") = "42"

\* whether a redirect of the call c was ever sent
Redirected(c) == \E r \in requests : r.method = "PUT" /\ r.url = CallURL \o "/" \o c

\* C2: whatever the order, with duplicates, in which a status the table maps and
\* a 'completed' are delivered for a leg whose transfer entry is live, the
\* original call is redirected. Stated for the deliveries made before the
\* clock first moves, so that no entry has expired.
C2_ReorderTolerated ==
    \A l \in LiveLegs(store) :
        (ticks = 0 /\ {"mapped", "completed"} \subseteq seen[l]) => Redirected(CallOf(store, l))

\* C3: when a status the table maps was stored for a transferred leg and the
\* leg's 'completed' callback arrives while its transfer entry is live, the
\* status entry is still there and the redirect is sent.
C3_StatusSurvives ==
    [][\A l \in Legs :
          (CompletedFor(l, store) /\ "mapped" \in seen[l])
          => /\ DialStatusKey(CallOf(store, l)) \in DOMAIN store
             /\ last'.sent # <<>>]_vars

\* C4: a 'completed' callback for a leg with a live transfer entry and no status
\* entry for the original call returns an error, sends no request and leaves the
\* store as it was.
C4_NoStatusIsError ==
    [][\A l \in Legs :
          (CompletedFor(l, store) /\ DialStatusKey(CallOf(store, l)) \notin DOMAIN store)
          => /\ last'.err # Nil
             /\ last'.sent = <<>>
             /\ requests' = requests
             /\ store' = store]_vars

\* a 'completed' callback for a live leg was refused for want of a status entry
C4_Witness ==
    /\ last.op = "PreprocessStatus"
    /\ last.err = "unable to find call status"
    /\ GetString(last.request, "uuid") \in LiveLegs(store)

\* the last step was PreprocessStatus on a 'completed' callback for the
\* transferred leg l, whose transfer entry had expired
CompletedLate(l) ==
    /\ last'.op = "PreprocessStatus"
    /\ GetString(last'.request, "uuid") = l
    /\ GetString(last'.request, "status") = "completed"
    /\ Transferred(l)
    /\ l \notin LiveLegs(store)

\* C5 as stated: a 'completed' callback for a transferred leg that arrives after
\* the leg's transfer entry expired is answered with an error.
C5_ExpiredIsError ==
    [][\A l \in Legs : CompletedLate(l) => last'.err # Nil]_vars

\* C5 as the code has it: such a callback is answered like one for a call that
\* was never transferred, with no body and no error; nothing is sent and the
\* store is left as it was.
C5_ExpiredIsNoAction ==
    [][\A l \in Legs :
          CompletedLate(l)
          => /\ last'.err = Nil
             /\ last'.body.kind = "none"
             /\ last'.sent = <<>>
             /\ store' = store]_vars

\* a 'completed' callback for a transferred leg was answered after the leg's
\* transfer entry had expired
C5_Witness ==
    /\ last.op = "PreprocessStatus"
    /\ GetString(last.request, "status") = "completed"
    /\ Transferred(GetString(last.request, "uuid"))
    /\ GetString(last.request, "uuid") \notin LiveLegs(store)
    /\ last.err = Nil

-----------------------------------------------------------------------------
(* Recordings: the script's record action, the delivery of the recording and
   the polls for it *)

\* sessions waiting on a recording
RecordSessions == {Session("W", TRUE, <<>>, AudioWait)}

RenderRecord == Render(Conns, RecordSessions, 2, SigClasses)

\* the provider delivers a recording to the event URL of a record action
Deliver ==
    \E e \in emitted, R \in RecordingURLs :
        /\ e.from = "record"
        /\ Resume(e, RecordingBody(R))

\* the one second input of the recording u times out: the provider posts the
\* input event to the input's event URL
PollFor(u) ==
    \E e \in emitted :
        /\ e.from = "poll"
        /\ e.tag = u
        /\ Resume(e, InputBody("", TRUE))

Poll == \E u \in UUIDs : PollFor(u)

RecNext == RenderRecord \/ Deliver \/ Poll \/ Clock

RecSpec == Init /\ [][RecNext]_vars

\* time passes while no recording waits to be polled: the provider polls within
\* the lifetime of an entry
PolledClock ==
    \E d \in TickSteps :
        /\ \A u \in UUIDs : RecordingKey(u) \notin DOMAIN store
        /\ Tick(d)

RecFairNext == RenderRecord \/ Deliver \/ Poll \/ PolledClock

\* a poll for the recording u would find the recording
PollDue(u) ==
    /\ RecordingKey(u) \in DOMAIN store
    /\ \E e \in emitted : e.from = "poll" /\ e.tag = u

\* the provider keeps polling for every recording: a poll that stays due is
\* made. WF_vars(PollFor(u)) implies this, as PollFor(u) can change the store
\* wherever PollDue(u) holds.
PollFair(u) == []<>(~PollDue(u)) \/ []<><<PollFor(u)>>_vars

RecFair == Init /\ [][RecFairNext]_vars /\ \A u \in UUIDs : PollFair(u)

\* the last step was a poll for the recording u
PollOf(u) ==
    /\ last'.op = "Resume"
    /\ Get(last'.request.Form, "wait_type") = "record"
    /\ Get(last'.request.Form, "recording_uuid") = u

\* C6: a poll for U that finds a live recording entry with the URL R deletes
\* the entry and returns no body and no error; ResumeForRequest on the request
\* as the poll leaves it gives an input resume with the attachment 'audio:'+R; a
\* later poll for U finds no entry.
C6_PollConsumes ==
    [][\A u \in UUIDs :
          (PollOf(u) /\ RecordingKey(u) \in DOMAIN store)
          => /\ RecordingKey(u) \notin DOMAIN store'
             /\ last'.err = Nil
             /\ last'.body.kind = "none"
             /\ last'.resume = InputResume("", "audio:" \o store[RecordingKey(u)].val)]_vars

\* a poll has resumed the session with a recording whose URL has to be escaped
C6_Witness ==
    /\ last.op = "Resume"
    /\ last.err = Nil
    /\ last.resume = InputResume("", "audio:https://nx.io/r 2")

\* C7: a poll for U that finds no recording entry returns, without an error, a
\* script of one input with a one second timeout whose event URL is the external
\* URL the poll itself came to, and leaves the store as it was.
C7_PollAgain ==
    [][\A u \in UUIDs :
          (PollOf(u) /\ RecordingKey(u) \notin DOMAIN store)
          => /\ last'.err = Nil
             /\ last'.body = Script(<<Input(0, 1, last'.url)>>)
             /\ last'.resume = NoResume
             /\ store' = store]_vars

\* a poll that came through the reverse proxy after the recording was consumed
\* was answered with the polling input
C7_Witness ==
    /\ last.op = "Resume"
    /\ last.body.kind = "ncco"
    /\ last.request.ForwardedPath # ""
    /\ \E u \in UUIDs : Get(last.request.Form, "recording_uuid") = u /\ rec[u].resumed # ""

\* C8: once the recording of U is delivered, a poll for U eventually resumes
\* the session with it; no poll resumes with a recording that was not delivered.
C8_PollingProgress ==
    /\ [](\A u \in UUIDs : rec[u].resumed # ""
                           => rec[u].delivered # "" /\ rec[u].resumed = "audio:" \o rec[u].delivered)
    /\ \A u \in UUIDs : (rec[u].delivered # "") ~> (rec[u].resumed # "")

\* a recording was delivered and a poll has resumed the session with it
C8_Witness == \E u \in UUIDs : rec[u].delivered # "" /\ rec[u].resumed = "audio:" \o rec[u].delivered

-----------------------------------------------------------------------------
(* The signer's claims: every URL the client hands out, and URLs that differ
   in their query values *)

\* the provider's answers to the request of an outgoing call
CallResponses ==
    {Response(StatusCreated, [uuid |-> "X1", status |-> "started"]),
     Response(StatusCreated, [uuid |-> "X1", status |-> statusFailed]),
     Response(500, <<>>)}

\* an outgoing call is requested: its answer URL and its event URL go to the provider
Called(c, out) ==
    /\ Apply(out)
    /\ emitted' = emitted \cup {Emit(out.sent[1].body.answer_url[1], "answer", ""),
                               Emit(out.sent[1].body.event_url[1], "status", "")}
    /\ last' = [op |-> "RequestCall", conn |-> c, body |-> out.body, err |-> out.err,
                sent |-> out.sent]
    /\ UNCHANGED <<now, ticks, issued, assigned, seen, recent, rec, polls, batch>>

Call ==
    \E c \in Conns :
        \E e \in Envs(RequestCall(store, hmac, "+15551234567", ResumeURLOf(c), StatusURLOf(c),
                                  Quiet(CallResponses)),
                      CallResponses, 2, SigClasses) :
            Called(c, RequestCall(store, hmac, "+15551234567", ResumeURLOf(c), StatusURLOf(c), e))

\* sessions waiting on digits, on a recording, on a transferred call
SignSessions ==
    {Session("W", TRUE, <<>>, DigitsWait(NoInt))} \cup RecordSessions \cup DialSessions

RenderSigned == Render(Conns, SignSessions, 2, SigClasses)

\* the provider posts the caller's digits to the event URL of a gather input
Gather ==
    \E e \in emitted :
        /\ e.from = "gather"
        /\ Resume(e, InputBody("1", FALSE))

CompletedBodies == {StatusBody(l, s, "") : l \in Legs, s \in {"answered", "completed"}}

SignedStatus == Status(CompletedBodies, SigClasses)

SignNext == Call \/ RenderSigned \/ Gather \/ Deliver \/ Poll \/ SignedStatus

SignSpec == Init /\ [][SignNext]_vars

\* C9: a request to a URL the client signed and handed out, as it was handed
\* out, passes ValidateRequestSignature, whatever the signature holds.
C9_SignedURLsVerify ==
    \A e \in emitted :
        ValidateRequestSignature(hmac, "A/", NewRequest(e.url, NoBody)).err = Nil

\* URLs with the same keys and different values
TamperValues == {"1", "1b", "x"} \X {"2", "b2"}

TamperURL(v) == "https://mr.io/handle?a=" \o v[1] \o "&b=" \o v[2]

\* the client signs a URL and hands it out
Signs(v, sg) ==
    /\ Cardinality(DOMAIN sg.hmac) <= MaxDigests
    /\ hmac' = sg.hmac
    /\ emitted' = emitted \cup {Emit(TamperURL(v) \o "&sig=" \o QueryEscape(sg.sig), "signed", v)}
    /\ last' = [op |-> "calculateSignature", url |-> TamperURL(v), sig |-> sg.sig]
    /\ UNCHANGED <<store, now, requests, ticks, issued, assigned, seen, recent, rec, polls, batch>>

Sign == \E v \in TamperValues, c \in SigClasses : Signs(v, calculateSignature(hmac, c, TamperURL(v)))

\* a request arrives with the values w and the signature of a URL handed out
\* with the values e.tag
Checks(e, w, r, c) ==
    \E v \in {ValidateRequestSignature(hmac, c, r)} :
        /\ Cardinality(DOMAIN v.hmac) <= MaxDigests
        /\ hmac' = v.hmac
        /\ last' = [op |-> "ValidateRequestSignature", signed |-> e.tag, values |-> w,
                    request |-> r, err |-> v.err]
        /\ UNCHANGED <<store, now, requests, ticks, emitted, issued, assigned, seen, recent, rec, polls, batch>>

Tamper ==
    \E e \in emitted, w \in TamperValues, c \in SigClasses :
        /\ e.from = "signed"
        /\ Checks(e, w,
                  NewRequest(TamperURL(w) \o SubSeq(e.url, Len(TamperURL(e.tag)) + 1, Len(e.url)),
                             NoBody), c)

TamperNext == Sign \/ Tamper

TamperSpec == Init /\ [][TamperNext]_vars

\* C10: a request that differs in a query value from the URL its signature was
\* made for, with the same keys, fails ValidateRequestSignature.
C10_TamperDetected ==
    (last.op = "ValidateRequestSignature" /\ last.values # last.signed) => last.err # Nil

-----------------------------------------------------------------------------
(* The signer on queries that hold the same parameters in different orders *)

\* the most parameters of a query
MaxParams == 3

Pair(k, v) == [key |-> k, val |-> v]

QueryPairs == {Pair("a", "1"), Pair("a", "2"), Pair("b", "3"), Pair("sig", "x")}

\* the queries of up to MaxParams different parameters
Queries ==
    UNION {{q \in [1..n -> QueryPairs] : \A i, j \in 1..n : q[i] = q[j] => i = j} : n \in 1..MaxParams}

RECURSIVE RawQueryOf(_)
RawQueryOf(q) ==
    IF q = <<>> THEN ""
    ELSE Head(q).key \o "=" \o Head(q).val
         \o (IF Len(q) > 1 THEN "&" ELSE "") \o RawQueryOf(Tail(q))

URLOf(q) == IF q = <<>> THEN "https://mr.io/handle" ELSE "https://mr.io/handle?" \o RawQueryOf(q)

\* calculateSignature is called on the URL with the query q
SignsQuery(q, sg) ==
    /\ Cardinality(DOMAIN sg.hmac) <= MaxDigests
    /\ hmac' = sg.hmac
    /\ last' = [op |-> "calculateSignature", query |-> q, sig |-> sg.sig]
    /\ UNCHANGED <<store, now, requests, ticks, emitted, issued, assigned, seen, recent, rec, polls, batch>>

SignQuery ==
    \E q \in Queries, c \in SigClasses : SignsQuery(q, calculateSignature(hmac, c, URLOf(q)))

OrderSpec == Init /\ [][SignQuery]_vars

\* the queries that hold the parameters of q in another order
Reorderings(q) ==
    {[i \in 1..Len(q) |-> q[f[i]]] :
        f \in {g \in [1..Len(q) -> 1..Len(q)] : \A i, j \in 1..Len(q) : g[i] = g[j] => i = j}}

\* those that keep the values of every key in the order they have in q
KeyReorderings(q) ==
    {p \in Reorderings(q) : \A k \in Keys(q) : Values(p, k) = Values(q, k)}

WithoutSig(q) == SelectSeq(q, LAMBDA p : p.key # "sig")

\* the query p, and p with its sig taken away, put first, put last, changed
SigChanges(p) ==
    {p, WithoutSig(p), <<Pair("sig", "x")>> \o WithoutSig(p), WithoutSig(p) \o <<Pair("sig", "y")>>}

\* the signature of every query in P, as calculateSignature gives it now, is sig
AllSigned(P, sig) ==
    \A p \in P : \A v \in SigChanges(p) : calculateSignature(hmac, "A/", URLOf(v)).sig = sig

\* C11 as stated: calculateSignature gives the same signature again for the same
\* URL, for the URL with its query parameters in any other order, and for the
\* URL with a sig parameter added, taken away or changed.
C11_OrderIndependent ==
    last.op = "calculateSignature" => AllSigned(Reorderings(last.query), last.sig)

\* C11 for the orders that keep the values of a repeated key in their order of
\* appearance: calculateSignature gives the same signature again for the same
\* URL, for every such reordering of its parameters, and for the URL with a sig
\* parameter added, taken away or changed.
C11_KeyOrderIndependent ==
    last.op = "calculateSignature" => AllSigned(KeyReorderings(last.query), last.sig)

\* a URL was signed whose keys are not in sorted order and that repeats a key
C11_Witness ==
    /\ last.op = "calculateSignature"
    /\ last.query = <<Pair("b", "3"), Pair("a", "2"), Pair("a", "1")>>

-----------------------------------------------------------------------------
(* ValidateRequestSignature on the requests that reach the URLs of an outgoing
   call: with the signature they were handed out with, with another, with none *)

\* where the sig parameter of a signed URL starts, its separator included
SigAt(u) == CHOOSE i \in 1..Len(u) : SubSeq(u, i, i + 4) \in {"&sig=", "?sig="}

\* the URL that was signed to make the URL e.url
UnsignedOf(e) == SubSeq(e.url, 1, SigAt(e.url) - 1)

\* the raw signature at the end of e.url
RawSigOf(e) == SubSeq(e.url, SigAt(e.url) + 5, Len(e.url))

\* "?" or "&", what e.url has before its sig parameter
SigSeparator(e) == SubSeq(e.url, SigAt(e.url), SigAt(e.url))

\* raw signatures that were never computed
ForgedSigs == {"", "AAAA", "A%2F1"}

\* the URLs of the requests made from e.url by replacing or dropping its signature
Resigned(e) ==
    {UnsignedOf(e)}
    \cup {UnsignedOf(e) \o SigSeparator(e) \o "sig=" \o s :
             s \in ForgedSigs \cup {RawSigOf(f) : f \in emitted}}

\* ValidateRequestSignature is called on the request r
Validates(r, v) ==
    /\ Cardinality(DOMAIN v.hmac) <= MaxDigests
    /\ hmac' = v.hmac
    /\ last' = [op |-> "ValidateRequestSignature", request |-> r, err |-> v.err]
    /\ UNCHANGED <<store, now, requests, ticks, emitted, issued, assigned, seen, recent, rec, polls, batch>>

Validate ==
    \E e \in emitted, c \in SigClasses :
        \E u \in Resigned(e) :
            \E r \in {NewRequest(u, NoBody)} : Validates(r, ValidateRequestSignature(hmac, c, r))

VerifyNext == Call \/ Validate

VerifySpec == Init /\ [][VerifyNext]_vars

\* the request's sig query parameter
SigParam(r) == Get(ParseQuery(r.RawQuery), "sig")

\* https://<host><request URI>, X-Forwarded-Path replacing the request URI when set
CheckedURL(r) ==
    "https://" \o r.Host
    \o (IF r.ForwardedPath # "" THEN r.ForwardedPath
        ELSE IF r.RawQuery = "" THEN r.Path ELSE r.Path \o "?" \o r.RawQuery)

\* the signature of the URL u, Nil when it was never computed
SignatureOf(in) == IF in \in DOMAIN hmac THEN hmac[in] ELSE Nil

\* the request carries a sig parameter that is not empty and is the signature of
\* the URL it is checked against
CarriesSignature(r) == SigParam(r) # "" /\ SigParam(r) = SignatureOf(SigningInput(CheckedURL(r)))

\* C12 as stated: ValidateRequestSignature returns success only on a request
\* whose sig parameter is present, not empty and equal to the recomputed
\* signature, whatever the path of the request.
C12_FailsClosed ==
    (last.op = "ValidateRequestSignature" /\ last.err = Nil) => CarriesSignature(last.request)

\* C12 for the call-handling endpoint: on a request whose path ends in "handle",
\* ValidateRequestSignature returns success only if the sig parameter is present,
\* not empty and equal to the signature recomputed over https://<host><request
\* URI>, X-Forwarded-Path replacing the request URI when set; a request to any
\* other path is not checked.
C12_HandleFailsClosed ==
    last.op = "ValidateRequestSignature"
    => IF HasSuffix(last.request.Path, "handle")
       THEN last.err = Nil <=> CarriesSignature(last.request)
       ELSE last.err = Nil

\* a request behind the reverse proxy passed with its signature, and the same
\* path fails without one
C12_Witness ==
    /\ last.op = "ValidateRequestSignature"
    /\ HasSuffix(last.request.Path, "handle")
    /\ last.request.ForwardedPath # ""
    /\ last.err = Nil
    /\ ValidateRequestSignature(hmac, "A/", NewRequest(ResumeURLOf("C2"), NoBody)).err # Nil

-----------------------------------------------------------------------------
(* The webhooks of a call: requests to the call-handling endpoint, which are
   validated, preprocessed and resume the flow, whose next sprint is rendered;
   and status callbacks, which are validated and preprocessed *)

\* the connection a resumption URL belongs to
ConnOf(r) == IF Get(r.Form, "connection") = "1" THEN "C1" ELSE "C2"

\* whether the flow engine was resumed by the request
FlowResumed(p) == p.err = Nil /\ p.resume.kind # "none"

\* once the flow engine is resumed, the script of its next sprint is written
sprinted(h, conn, session, p, env) ==
    IF FlowResumed(p) THEN WriteSessionResponse(p.store, h, conn, session, ResumeURLOf(conn), env)
    ELSE Outcome(p.body, p.err, p.store, h, <<>>)

\* a status callback: validated, then preprocessed
handleStatus(st, r, v, env) ==
    IF v.err # Nil THEN Outcome(NoResponse, v.err, st, v.hmac, <<>>)
    ELSE PreprocessStatus(st, v.hmac, r.Body, env)

\* a request to the call-handling endpoint was answered
Flowed(e, r, session, env, p, out) ==
    /\ (FlowResumed(p) /\ UsesUUID(session)) => env.uuid # Nil
    /\ Apply(out)
    /\ issued' = IF FlowResumed(p) /\ UsesUUID(session) THEN issued + 1 ELSE issued
    /\ assigned' = IF out.sent # <<>> /\ HasKey(env.resp.body, "uuid")
                   THEN assigned + 1 ELSE assigned
    /\ emitted' = IF out.err = Nil /\ out.body.kind = "ncco"
                  THEN emitted \cup EventURLs(out.body.actions,
                                              IF FlowResumed(p) THEN env.uuid ELSE e.tag)
                  ELSE emitted
    /\ last' = [op |-> "handleFlow", request |-> r, body |-> out.body, err |-> out.err,
                sent |-> out.sent]
    /\ UNCHANGED <<now, ticks, seen, recent, rec, polls, batch>>

Flows(e, r, session, env, v) ==
    \E p \in {validated(store, r, v, env)} :
        \E out \in {sprinted(v.hmac, ConnOf(r), session, p, env)} :
            Flowed(e, r, session, env, p, out)

\* what the provider posts to an event URL of a script
EventBody(e) ==
    IF e.from = "record" THEN RecordingBody("https://nx.io/r1")
    ELSE IF e.from = "poll" THEN InputBody("", TRUE)
    ELSE InputBody("1", FALSE)

\* the next sprint: its session and, for the call it may create, the provider's answer
FlowSprints ==
    {<<Session("W", TRUE, <<>>, DigitsWait(NoInt)), Response(500, <<>>)>>}
    \cup (DialSessions \X CreateResponses)

\* the URLs of the requests made from e.url: as it is, without its signature,
\* with a forged one, with the one of another URL
FlowURLs(e) ==
    {e.url, UnsignedOf(e)}
    \cup {UnsignedOf(e) \o SigSeparator(e) \o "sig=" \o s :
             s \in {"AAAA"} \cup {RawSigOf(f) : f \in {g \in emitted : g.from = "gather"}}}

\* a request reaches an event URL of a script, with the signature the URL was
\* handed out with, with another or with none
Flow ==
    \E e \in emitted, s \in FlowSprints :
        /\ e.from \in {"gather", "record", "poll"}
        /\ \E u \in FlowURLs(e) :
               \E r \in {NewRequest(u, EventBody(e))} :
                   Flows(e, r, s[1], Env(s[2], FALSE, "A/", "A/"),
                         ValidateRequestSignature(hmac, "A/", r))

\* a status callback was answered
StatusFlowed(r, out) ==
    /\ Apply(out)
    /\ emitted' = emitted \cup {Emit(out.sent[i].body.destination.url[1], "transfer", "") :
                                    i \in 1..Len(out.sent)}
    /\ last' = [op |-> "handleStatus", request |-> r, body |-> out.body, err |-> out.err,
                sent |-> out.sent]
    /\ UNCHANGED <<now, ticks, issued, assigned, seen, recent, rec, polls, batch>>

\* the provider reports the status of a transferred leg to the status URL, which
\* no request of the client has named to it for the leg
StatusFlow ==
    \E b \in CompletedBodies, resp \in UpdateResponses :
        \E r \in {NewRequest(StatusURLOf("C1"), b)} :
            \E v \in {ValidateRequestSignature(hmac, "A/", r)} :
                StatusFlowed(r, handleStatus(store, r, v, Env(resp, FALSE, "A/", "A/")))

RenderFlow == Render(Conns, SignSessions, 2, {"A/"})

AuthNext == RenderFlow \/ Flow \/ StatusFlow

AuthSpec == Init /\ [][AuthNext]_vars

\* the request carries a sig parameter that is the signature, among the digests
\* h, of the URL it is checked against
ValidFor(h, r) ==
    /\ SigParam(r) # ""
    /\ SigningInput(CheckedURL(r)) \in DOMAIN h
    /\ h[SigningInput(CheckedURL(r))] = SigParam(r)

\* the step wrote to the store, deleted from it or sent a request to the provider
Mutates == store' # store \/ last'.sent # <<>>

\* C13 as stated: no inbound request with a missing or mismatched signature
\* causes a store write, a store delete or a request to the provider.
C13_AuthPrecedesMutation ==
    [][(last'.op \in {"handleFlow", "handleStatus"} /\ Mutates) => ValidFor(hmac', last'.request)]_vars

\* C13 for the call-handling endpoint: no request to a path ending in "handle"
\* with a missing or mismatched signature causes a store write, a store delete
\* or a request to the provider; each one such a request causes is caused by a
\* request that carried a valid signature.
C13_HandleAuthPrecedesMutation ==
    [][(/\ last'.op \in {"handleFlow", "handleStatus"}
        /\ HasSuffix(last'.request.Path, "handle")
        /\ Mutates) => ValidFor(hmac', last'.request)]_vars

\* a request with a valid signature has resumed the flow, whose next sprint
\* created a transfer call and wrote its transfer entry
C13_Witness ==
    /\ last.op = "handleFlow"
    /\ ValidFor(hmac, last.request)
    /\ last.sent # <<>>
    /\ \E l \in Legs : DialKey(l) \in DOMAIN store

-----------------------------------------------------------------------------
(* Callbacks that are delivered more than once: intermediate statuses of a
   transferred leg and recordings *)

\* what every GET returns: the value of each live key
Mapping(st) == [k \in DOMAIN st |-> st[k].val]

\* time passes between two callbacks, and redis drops the entries whose expiry
\* is reached
LapseSteps == {100, 300}

Lapse ==
    \E d \in LapseSteps :
        /\ ticks < MaxTicks
        /\ ticks' = ticks + 1
        /\ now' = now + d
        /\ store' = Unexpired(store, now + d)
        /\ UNCHANGED <<hmac, requests, emitted, issued, assigned, last, seen, recent, rec, polls, batch>>

\* a callback was processed: whether it is the one processed just before, what
\* the store held when it arrived, when that was, and how long after the one before
Processed(op, request, key, out) ==
    /\ store' = out.store
    /\ last' = [op |-> op, request |-> request, key |-> key, err |-> out.err,
                repeats |-> /\ last.op = op
                            /\ last.request = request
                            /\ last.err = Nil,
                before |-> Mapping(store), at |-> now,
                lapsed |-> IF last.op = op THEN now - last.at ELSE 0]
    /\ UNCHANGED <<now, hmac, requests, ticks, emitted, issued, assigned, seen, recent, rec, polls, batch>>

\* the intermediate statuses the provider reports for a transferred leg
IntermediateBodies == {StatusBody(l, s, "") : l \in Legs, s \in {"answered", "timeout"}}

\* the key of the status entry of the call the leg l was transferred from
StatusKeyOf(st, l) == IF l \in LiveLegs(st) THEN DialStatusKey(CallOf(st, l)) ELSE Nil

RepeatStatus ==
    \E b \in IntermediateBodies :
        Processed("PreprocessStatus", b, StatusKeyOf(store, b.obj.uuid),
                  PreprocessStatus(store, hmac, b, Env(TransportError, FALSE, "A/", "A/")))

RepeatDelivery ==
    \E e \in emitted, R \in RecordingURLs :
        /\ e.from = "record"
        /\ \E r \in {NewRequest(e.url, RecordingBody(R))} :
               Processed("PreprocessResume", r, RecordingKey(e.tag),
                         handleResume(store, hmac, r, Env(TransportError, FALSE, "A/", "A/")))

RenderRepeat == Render(Conns, DialSessions \cup RecordSessions, 2, {"A/"})

RepeatNext == RenderRepeat \/ RepeatStatus \/ RepeatDelivery \/ Lapse

RepeatSpec == Init /\ [][RepeatNext]_vars

\* the last step processed, without error, the callback processed just before
\* it, whose entry was still live
Repeated ==
    /\ last.op \in {"PreprocessStatus", "PreprocessResume"}
    /\ last.at = now
    /\ last.repeats
    /\ last.err = Nil
    /\ last.key \in DOMAIN last.before

\* C14: processing an intermediate status callback or a recording delivery
\* again, while the entry the first processing wrote is live, leaves every key
\* of the store with the value it had, so that every read returns what it
\* returned before; the expiry of the entry is counted anew.
C14_IdempotentOverwrite ==
    Repeated => /\ Mapping(store) = last.before
                /\ store[last.key].exp = now + (IF last.op = "PreprocessStatus"
                                                THEN StatusTTL ELSE RecordingTTL)

\* a status callback was processed a second time, some time after the first,
\* while another entry was live
C14_Witness ==
    /\ Repeated
    /\ last.op = "PreprocessStatus"
    /\ last.lapsed > 0
    /\ Cardinality(DOMAIN store) > 1
    /\ \E e \in {store[last.key]} : e.exp = now + StatusTTL

-----------------------------------------------------------------------------
(* PreprocessStatus on every kind of callback body, with redis answering or not *)

\* bodies of status callbacks: none, not JSON, conversation notifications with
\* and without the fields of a status, statuses that lack a field, statuses
NoticeBodies ==
    {NoBody, MalformedBody, JSONBody([type |-> "transfer"]), JSONBody([foo |-> "bar"])}
    \cup {JSONBody([type |-> "transfer", uuid |-> l, status |-> "answered"]) : l \in Legs}
    \cup {JSONBody([uuid |-> l]) : l \in Legs}
    \cup {JSONBody([status |-> "completed"])}
    \cup {StatusBody(l, s, "") : l \in Legs, s \in {"answered", "started", "completed"}}

\* PreprocessStatus was called in the environment env
Notified(body, env, out) ==
    /\ Apply(out)
    /\ emitted' = emitted \cup {Emit(out.sent[i].body.destination.url[1], "transfer", "") :
                                    i \in 1..Len(out.sent)}
    /\ last' = [op |-> "PreprocessStatus", request |-> body, redisErr |-> env.redisErr,
                body |-> out.body, err |-> out.err, sent |-> out.sent]
    /\ UNCHANGED <<now, ticks, issued, assigned, seen, recent, rec, polls, batch>>

Notify ==
    \E b \in NoticeBodies, resp \in UpdateResponses, redisErr \in BOOLEAN :
        \E env \in {Env(resp, redisErr, "A/", "A/")} :
            Notified(b, env, PreprocessStatus(store, hmac, b, env))

NoticeNext == RenderDial \/ Notify \/ Clock

NoticeSpec == Init /\ [][NoticeNext]_vars

\* (nil, nil): neither a body nor an error
NilNil(l) == l.body = NoResponse /\ l.err = Nil

\* the store st holds a live transfer entry for the uuid of the body b
LiveEntry(b, st) == GetString(b, "uuid") # "" /\ DialKey(GetString(b, "uuid")) \in DOMAIN st

\* no adapter-level action, as the claim lists the cases
NoActionListed(b, st) ==
    \/ b.kind = "none"
    \/ GetString(b, "uuid") = ""
    \/ GetString(b, "status") = ""
    \/ ~LiveEntry(b, st)

\* the body is a status: JSON, not of type transfer, with a uuid and a status
IsStatus(b) ==
    /\ b.kind = "json"
    /\ GetString(b, "type") # "transfer"
    /\ GetString(b, "uuid") # ""
    /\ GetString(b, "status") # ""

\* no adapter-level action, as the code decides it
NoAction(b, st, redisErr) ==
    \/ b.kind = "none"
    \/ b.kind = "json" /\ GetString(b, "type") # "transfer" /\ ~IsStatus(b)
    \/ IsStatus(b) /\ ~redisErr /\ ~LiveEntry(b, st)

\* a step that wrote nothing to the store and sent nothing to the provider
NoEffect == store' = store /\ last'.sent = <<>> /\ requests' = requests

-----------------------------------------------------------------------------
(* Webhook Interpreter: StatusForRequest *)

\* models.ConnectionStatus
ConnectionStatusWired == "wired"

ConnectionStatusInProgress == "in_progress"

ConnectionStatusCompleted == "completed"

ConnectionStatusErrored == "errored"

ConnectionStatusFailed == "failed"

ConnStatus(status, duration) == [status |-> status, duration |-> duration]

\* a variant of statusFor that takes an unknown status for a call in progress
statusForLenient(status, d) ==
    CASE status = "" -> ConnStatus(ConnectionStatusInProgress, 0)
      [] status \in {"started", "ringing"} -> ConnStatus(ConnectionStatusWired, 0)
      [] status = "completed" -> ConnStatus(ConnectionStatusCompleted, IF IsInt(d) THEN Atoi(d) ELSE 0)
      [] status \in {"rejected", "busy", "unanswered", "timeout", "failed", "machine"} ->
            ConnStatus(ConnectionStatusErrored, 0)
      [] OTHER -> ConnStatus(ConnectionStatusInProgress, 0)

\* the status of the body decides; the error of Atoi is dropped, which then returns 0
statusFor(status, d) ==
    CASE status = "" -> ConnStatus(ConnectionStatusInProgress, 0)
      [] status \in {"started", "ringing"} -> ConnStatus(ConnectionStatusWired, 0)
      [] status = "answered" -> ConnStatus(ConnectionStatusInProgress, 0)
      [] status = "completed" -> ConnStatus(ConnectionStatusCompleted, IF IsInt(d) THEN Atoi(d) ELSE 0)
      [] status \in {"rejected", "busy", "unanswered", "timeout", "failed", "machine"} ->
            ConnStatus(ConnectionStatusErrored, 0)
      [] OTHER -> ConnStatus(ConnectionStatusFailed, 0)

\* StatusForRequest: json.Unmarshal fails on an empty body and on one that is not JSON
StatusForRequest(r) ==
    IF Get(r.Form, "action") = "resume" THEN ConnStatus(ConnectionStatusInProgress, 0)
    ELSE IF r.Body.kind # "json" THEN ConnStatus(ConnectionStatusErrored, 0)
    ELSE statusFor(GetString(r.Body, "status"), GetString(r.Body, "duration"))

\* the statuses of the provider's callbacks, one it does not have, an empty one
CallStatuses ==
    {"started", "ringing", "answered", "completed", "rejected", "busy", "unanswered",
     "timeout", "failed", "machine", "cancelled", "weird", ""}

CallDurations == {"", "42", "4x", "-5"}

\* the bodies of the callbacks
CallBodies ==
    {NoBody, MalformedBody, JSONBody([uuid |-> "X1"])}
    \cup {JSONBody([uuid |-> "X1", status |-> s]) : s \in CallStatuses}
    \cup {JSONBody([uuid |-> "X1", status |-> s, duration |-> d]) :
             s \in CallStatuses, d \in CallDurations}

\* the URLs they are posted to
CallbackURLs ==
    {"https://mr.io/status", "https://mr.io/handle?action=resume", "https://mr.io/handle?action=start"}

\* StatusForRequest is called on the request r
Interprets(r, cs) ==
    /\ last' = [op |-> "StatusForRequest", request |-> r, status |-> cs.status,
                duration |-> cs.duration]
    /\ UNCHANGED <<store, now, hmac, requests, ticks, emitted, issued, assigned, seen, recent, rec, polls, batch>>

Interpret ==
    \E u \in CallbackURLs, b \in CallBodies :
        \E r \in {NewRequest(u, b)} : Interprets(r, StatusForRequest(r))

InterpretSpec == Init /\ [][Interpret]_vars

\* what the claim's table gives for the status s and the duration text d
TableStatus(s, d) ==
    IF s \in {"started", "ringing"} THEN <<"wired", 0>>
    ELSE IF s = "answered" THEN <<"in_progress", 0>>
    ELSE IF s = "completed" THEN <<"completed", d>>
    ELSE IF s \in {"rejected", "busy", "unanswered", "timeout", "failed", "machine"}
    THEN <<"errored", 0>>
    ELSE <<"failed", 0>>

\* the integer a duration text stands for, 0 when it stands for none
DurationOf(b) ==
    LET d == IF b.kind = "json" /\ "duration" \in DOMAIN b.obj THEN b.obj.duration ELSE ""
    IN  IF d = "42" THEN 42 ELSE IF d = "-5" THEN 0 - 5 ELSE 0

StatusOf(b) == IF b.kind = "json" /\ "status" \in DOMAIN b.obj THEN b.obj.status ELSE ""

Answer(l) == <<l.status, l.duration>>

\* C16 as stated, for bodies that hold a status: action=resume gives
\* in-progress/0; otherwise the status decides by the table, and every status
\* string the table does not hold, the empty one too, gives failed/0.
C16_StatusTable ==
    (last.op = "StatusForRequest" /\ HasKey(last.request.Body, "status"))
    => IF Get(last.request.Form, "action") = "resume" THEN Answer(last) = <<"in_progress", 0>>
       ELSE Answer(last) = TableStatus(StatusOf(last.request.Body), DurationOf(last.request.Body))

\* C16 with the cases the table leaves out: action=resume gives in-progress/0
\* whatever the body; otherwise a body that is empty or not JSON gives errored/0,
\* a missing or empty status gives in-progress/0, and every other status is
\* decided by the table, 'completed' with the body's duration (0 when it is
\* missing or not an integer) and a status the table does not hold failed/0.
C16_StatusTableTotal ==
    last.op = "StatusForRequest"
    => IF Get(last.request.Form, "action") = "resume" THEN Answer(last) = <<"in_progress", 0>>
       ELSE IF last.request.Body.kind # "json" THEN Answer(last) = <<"errored", 0>>
       ELSE IF StatusOf(last.request.Body) = "" THEN Answer(last) = <<"in_progress", 0>>
       ELSE Answer(last) = TableStatus(StatusOf(last.request.Body), DurationOf(last.request.Body))

\* a status the table does not hold was found failed
C16_Witness ==
    /\ last.op = "StatusForRequest"
    /\ Get(last.request.Form, "action") # "resume"
    /\ StatusOf(last.request.Body) = "weird"
    /\ Answer(last) = <<"failed", 0>>

-----------------------------------------------------------------------------
(* ResumeForRequest on the requests of every wait type *)

\* a query parameter, nothing for Nil
Param(k, v) == IF v = Nil THEN "" ELSE "&" \o k \o "=" \o v

ResumeBodies == {NoBody, MalformedBody, InputBody("1", FALSE), InputBody("", TRUE)}

\* the URLs of resume webhooks
ResumeURLs ==
    {ResumeURLOf("C1") \o Param("empty", e) \o Param("wait_type", w) \o Param("recording_url", u)
                       \o Param("dial_status", s) \o Param("dial_duration", d) :
        e \in {Nil, "true", "false"},
        w \in {Nil, "gather", "record", "dial", "other"},
        u \in {Nil, "", "https%3A%2F%2Fnx.io%2Fr1"},
        s \in {Nil, "answered"},
        d \in {Nil, "42", "4x"}}

\* ResumeForRequest is called on the request r
Dispatches(r, res) ==
    /\ last' = [op |-> "ResumeForRequest", request |-> r, resume |-> res.resume, err |-> res.err]
    /\ UNCHANGED <<store, now, hmac, requests, ticks, emitted, issued, assigned, seen, recent, rec, polls, batch>>

Dispatch ==
    \E u \in ResumeURLs, b \in ResumeBodies :
        \E r \in {NewRequest(u, b)} : Dispatches(r, ResumeForRequest(r))

DispatchSpec == Init /\ [][Dispatch]_vars

\* a resume without input
NoInput(l) == l.err = Nil /\ l.resume = [kind |-> "input", input |-> "", attachment |-> ""]

\* what the query of the request holds for the key k
QueryValue(l, k) == Get(ParseQuery(l.request.RawQuery), k)

\* the dial resume the query describes, an error for a duration that is no integer
DialOutcome(l) ==
    IF QueryValue(l, "dial_duration") = "4x" THEN l.err # Nil
    ELSE /\ l.err = Nil
         /\ l.resume = [kind |-> "dial", status |-> QueryValue(l, "dial_status"),
                        duration |-> IF QueryValue(l, "dial_duration") = "42" THEN 42 ELSE 0]

GatherOutcome(l) ==
    IF HasKey(l.request.Body, "timed_out") /\ l.request.Body.obj.timed_out THEN NoInput(l)
    ELSE /\ l.err = Nil
         /\ l.resume = [kind |-> "input", input |-> GetString(l.request.Body, "dtmf"),
                        attachment |-> ""]

RecordOutcome(l) ==
    IF QueryValue(l, "recording_url") = "" THEN NoInput(l)
    ELSE /\ l.err = Nil
         /\ l.resume = [kind |-> "input", input |-> "", attachment |-> "audio:https://nx.io/r1"]

\* C17 as stated, for the requests that name a dial_status when they name the
\* wait type dial: empty=true gives a resume without input; gather gives none
\* when the body is timed out and else the digits; record gives none when
\* recording_url is empty and else the recording; dial gives the dial resume of
\* dial_status and dial_duration; every other wait type is an error.
C17_Dispatch ==
    last.op = "ResumeForRequest"
    => IF QueryValue(last, "empty") = "true" THEN NoInput(last)
       ELSE CASE QueryValue(last, "wait_type") = "gather" -> GatherOutcome(last)
              [] QueryValue(last, "wait_type") = "record" -> RecordOutcome(last)
              [] QueryValue(last, "wait_type") = "dial"   ->
                    QueryValue(last, "dial_status") # "" => DialOutcome(last)
              [] OTHER -> last.err # Nil

\* C17 with the errors the claim leaves out: as C17_Dispatch, but gather and
\* record are an error when the body is empty or not JSON, and dial is an error
\* when dial_status is missing or empty.
C17_DispatchOrError ==
    last.op = "ResumeForRequest"
    => IF QueryValue(last, "empty") = "true" THEN NoInput(last)
       ELSE CASE QueryValue(last, "wait_type") = "gather" ->
                    IF last.request.Body.kind # "json" THEN last.err # Nil
                    ELSE GatherOutcome(last)
              [] QueryValue(last, "wait_type") = "record" ->
                    IF last.request.Body.kind # "json" THEN last.err # Nil
                    ELSE RecordOutcome(last)
              [] QueryValue(last, "wait_type") = "dial" ->
                    IF QueryValue(last, "dial_status") = "" THEN last.err # Nil
                    ELSE DialOutcome(last)
              [] OTHER -> last.err # Nil

\* a request with empty=true and a wait type that is none gave a resume without input
C17_Witness ==
    /\ last.op = "ResumeForRequest"
    /\ QueryValue(last, "empty") = "true"
    /\ QueryValue(last, "wait_type") = "other"
    /\ NoInput(last)

-----------------------------------------------------------------------------
(* RequestCall against every kind of answer of the provider *)

\* the provider's answers to a call creation request: created, created and
\* failed, created without a uuid or with an empty one, created with a body that
\* is not JSON, not created, and no answer at all
PlaceResponses ==
    {Response(StatusCreated, [uuid |-> "X1", status |-> "started"]),
     Response(StatusCreated, [uuid |-> "X1"]),
     Response(StatusCreated, [uuid |-> "X1", status |-> statusFailed]),
     Response(StatusCreated, [status |-> "started"]),
     Response(StatusCreated, [uuid |-> "", status |-> "started"]),
     [err |-> FALSE, code |-> StatusCreated, body |-> MalformedBody],
     Response(200, [uuid |-> "X1", status |-> "started"]),
     Response(500, <<>>),
     TransportError}

PlaceNumbers == {"+15551234567", "15550000000"}

\* RequestCall has returned
Placed(c, number, env, out) ==
    /\ Apply(out)
    /\ emitted' = emitted \cup {Emit(out.sent[i].body.answer_url[1], "answer", "") :
                                   i \in 1..Len(out.sent)}
    /\ last' = [op |-> "RequestCall", conn |-> c, number |-> number, resp |-> env.resp,
                body |-> out.body, err |-> out.err, sent |-> out.sent]
    /\ UNCHANGED <<now, ticks, issued, assigned, seen, recent, rec, polls, batch>>

Place ==
    \E c \in Conns, n \in PlaceNumbers, resp \in PlaceResponses, c1 \in SigClasses :
        \E env \in {Env(resp, FALSE, c1, "A/")} :
            Placed(c, n, env, RequestCall(store, hmac, n, ResumeURLOf(c), StatusURLOf(c), env))

PlaceSpec == Init /\ [][Place]_vars

\* the provider answered created, with a uuid that is not empty and a status
\* other than failed
Created(resp) ==
    /\ ~resp.err
    /\ resp.code = 201
    /\ resp.body.kind = "json"
    /\ "uuid" \in DOMAIN resp.body.obj
    /\ resp.body.obj.uuid # ""
    /\ ~("status" \in DOMAIN resp.body.obj /\ resp.body.obj.status = "failed")

\* C18: RequestCall sends one POST to the calls endpoint and no other request;
\* it returns the call ID of the answer, without an error, when the provider
\* answered created with a uuid and a status other than failed, and in every
\* other case no call ID, with an error.
C18_OneRequestOneAnswer ==
    [][last'.op = "RequestCall"
       => /\ Len(last'.sent) = 1
          /\ last'.sent[1].method = "POST"
          /\ last'.sent[1].url = "https://api.nexmo.com/v1/calls"
          /\ requests' = requests \cup {last'.sent[1]}
          /\ IF Created(last'.resp)
             THEN last'.err = Nil /\ last'.body = [kind |-> "call", id |-> last'.resp.body.obj.uuid]
             ELSE last'.err # Nil /\ last'.body = [kind |-> "none"]]_vars

\* the provider answered created, with a uuid and the status failed, and
\* RequestCall returned an error
C18_Witness ==
    /\ last.op = "RequestCall"
    /\ last.resp = Response(StatusCreated, [uuid |-> "X1", status |-> "failed"])
    /\ last.err # Nil
    /\ Cardinality(requests) = 1

-----------------------------------------------------------------------------
(* Dial waits rendered against every kind of answer of the provider *)

\* sessions waiting on a transferred call, to numbers with and without a
\* leading "+", with and without a timeout
TransferSessions ==
    {Session("W", TRUE, <<>>, DialWait(n, t)) : n \in {"+15551234567", "15550000000"}, t \in {NoInt, 30}}

\* the provider's answers to the call creation request of a transfer
TransferResponses ==
    (IF NextLeg = Nil THEN {}
     ELSE {Response(StatusCreated, [uuid |-> NextLeg, status |-> "started"]),
           Response(StatusCreated, [uuid |-> NextLeg]),
           Response(StatusCreated, [uuid |-> NextLeg, status |-> statusFailed]),
           Response(200, [uuid |-> NextLeg, status |-> "started"])})
    \cup {Response(StatusCreated, [status |-> "started"]),
          [err |-> FALSE, code |-> StatusCreated, body |-> MalformedBody],
          Response(500, <<>>),
          TransportError}

\* the script of a sprint that ends in a dial wait was written, or was not
Dialed(c, session, env, out) ==
    /\ env.uuid # Nil
    /\ Apply(out)
    /\ issued' = issued + 1
    /\ assigned' = IF HasKey(env.resp.body, "uuid") THEN assigned + 1 ELSE assigned
    /\ last' = [op |-> "Dial", conn |-> c, session |-> session, resp |-> env.resp,
                redisErr |-> env.redisErr, conversation |-> env.uuid,
                body |-> out.body, err |-> out.err, sent |-> out.sent]
    /\ UNCHANGED <<now, ticks, emitted, seen, recent, rec, polls, batch>>

Dial ==
    \E c \in Conns, s \in TransferSessions, resp \in TransferResponses, redisErr \in BOOLEAN :
        \E env \in {Env(resp, redisErr, "A/", "A/")} :
            Dialed(c, s, env, WriteSessionResponse(store, hmac, c, s, ResumeURLOf(c), env))

\* the provider reports that a transferred leg was answered
DialStatus == Status({StatusBody(l, "answered", "") : l \in Legs}, {"A/"})

DialNext == Dial \/ DialStatus \/ Clock

DialSpec == Init /\ [][DialNext]_vars

\* the number, without its leading "+"
Bare(n) == IF n = "+15551234567" THEN "15551234567" ELSE n

\* the one request of the step: a POST that creates a call to the target number
\* from the channel's, both without "+", in the conversation named name
CreatesCall(l, name) ==
    /\ Len(l.sent) = 1
    /\ l.sent[1].method = "POST"
    /\ l.sent[1].url = "https://api.nexmo.com/v1/calls"
    /\ l.sent[1].body.to = <<[type |-> "phone", number |-> Bare(l.session.wait.urn)]>>
    /\ l.sent[1].body.from = [type |-> "phone", number |-> "15559876543"]
    /\ l.sent[1].body.ncco = <<[action |-> "conversation", name |-> name]>>

\* the script joins the current call to the conversation named name
JoinsConversation(l, name) ==
    /\ l.body.kind = "ncco"
    /\ \E i \in 1..Len(l.body.actions) : l.body.actions[i] = [action |-> "conversation", name |-> name]
    /\ \A i \in 1..Len(l.body.actions) :
           l.body.actions[i].action = "conversation" => l.body.actions[i].name = name

\* what PreprocessStatus makes of the status 'answered' of the leg, in the store st
AnsweredIn(st, leg) ==
    PreprocessStatus(st, <<>>, JSONBody([uuid |-> leg, status |-> "answered"]),
                     [resp |-> TransportError, redisErr |-> FALSE, c1 |-> "A/", c2 |-> "A/",
                      uuid |-> Nil]).store

\* the store st holds, for an hour from the time t, a transfer entry for the leg
\* that decodes to the call c and its resumption URL tagged wait_type=dial
TransferEntry(st, t, leg, c) ==
    /\ ("dial_" \o leg) \in DOMAIN st
    /\ st["dial_" \o leg].exp = t + 3600
    /\ SplitN2(st["dial_" \o leg].val, ":") = <<c, ResumeURLOf(c) \o "&wait_type=dial">>
    /\ ("dial_status_" \o c) \in DOMAIN AnsweredIn(st, leg)

\* the provider answered created, with a uuid
Answered(resp) == ~resp.err /\ resp.code = 201 /\ HasKey(resp.body, "uuid")

\* C19: rendering a dial wait sends one request, which creates a call to the
\* target number in the conversation the script joins the current call to, the
\* "+" stripped from both numbers; when the provider answers created with a
\* uuid and redis takes the entry, the script is written and the store holds,
\* for an hour, a transfer entry under that uuid which PreprocessStatus decodes
\* to the connection's external ID and its resumption URL tagged wait_type=dial.
C19_DialCreatesTransfer ==
    [][last'.op = "Dial"
       => /\ CreatesCall(last', last'.conversation)
          /\ last'.err = Nil <=> (Answered(last'.resp) /\ ~last'.redisErr)
          /\ last'.err = Nil
             => /\ JoinsConversation(last', last'.conversation)
                /\ TransferEntry(store', now, last'.resp.body.obj.uuid, last'.conn)]_vars

\* a dial wait to a number with a "+" was rendered behind the reverse proxy,
\* and its transfer entry is in the store
C19_Witness ==
    /\ last.op = "Dial"
    /\ last.err = Nil
    /\ last.conn = "C2"
    /\ last.session.wait.urn = "+15551234567"
    /\ DialKey(last.resp.body.obj.uuid) \in DOMAIN store

\* the provider did not create the call of the transfer
NotCreated(resp) ==
    \/ resp.err
    \/ resp.code # 201
    \/ ~HasKey(resp.body, "uuid")
    \/ GetString(resp.body, "status") = "failed"

\* C20: when the provider does not create the call of the transfer (no answer,
\* a status other than created, an answer without a uuid, an answer whose
\* status is 'failed'), rendering the dial wait returns an error and no script,
\* and writes nothing to the store.
C20_FailureAborts ==
    [][(last'.op = "Dial" /\ NotCreated(last'.resp))
       => /\ last'.err # Nil
          /\ last'.body = [kind |-> "none"]
          /\ store' = store]_vars
-----------------------------------------------------------------------------
(* Script Builder: the scripts written for the sessions of a call, as the
   provider reads them *)

\* the fields of an NCCO action that json.Marshal leaves out: the fields tagged
\* omitempty that hold the zero value of their type
OmitEmpty(a) ==
    IF a.action = "talk"
    THEN {f \in {"bargeIn"} \cap DOMAIN a : a[f] = FALSE}
         \cup {f \in {"Error", "Message"} \cap DOMAIN a : a[f] = ""}
    ELSE IF a.action = "input" THEN {f \in {"maxDigits"} : a[f] = 0}
    ELSE IF a.action = "record"
    THEN {f \in {"timeOut", "endOnSilence"} : a[f] = 0} \cup {f \in {"endOnKey"} : a[f] = ""}
    ELSE {}

\* the JSON key of a field, and the field of a key
JSONKey(f) == IF f = "Error" THEN "_error" ELSE IF f = "Message" THEN "_message" ELSE f

FieldOf(k) == IF k = "_error" THEN "Error" ELSE IF k = "_message" THEN "Message" ELSE k

\* json.Marshal of an action: the object the provider reads
Marshal(a) == [k \in {JSONKey(f) : f \in DOMAIN a \ OmitEmpty(a)} |-> a[FieldOf(k)]]

\* json.MarshalIndent of a script: the array the provider reads
MarshalScript(actions) == [i \in 1..Len(actions) |-> Marshal(actions[i])]

\* the events of a sprint: a spoken message, a message with two attachments,
\* an event of another type
Spoken == IVRCreated("hello", <<>>)

Played == IVRCreated("listen", <<"https://media/a.mp3", "https://media/b.mp3">>)

ScriptSprints ==
    {<<>>, <<Spoken>>, <<Played, Spoken>>, <<OtherEvent, Spoken, Played>>,
     <<Spoken, IVRCreated("bye", <<>>)>>}

ScriptWaits ==
    {NoWait, DigitsWait(4), DigitsWait(0), DigitsWait(NoInt), AudioWait, ImageWait, NoHintWait,
     DialWait("+15551234567", NoInt), OtherWait}

\* the sessions of a call: waiting with a sprint, failed, without a sprint
ScriptSessions ==
    {Session("W", TRUE, es, w) : es \in ScriptSprints, w \in ScriptWaits}
    \cup {Session("F", TRUE, <<Spoken>>, w) : w \in {NoWait, DigitsWait(4)}}
    \cup {Session("W", FALSE, <<Spoken>>, w) : w \in {NoWait, AudioWait}}

RenderScript == Render({"C1"}, ScriptSessions, 2, SigClasses)

ScriptSpec == Init /\ [][RenderScript]_vars

\* the script last written, as the provider reads it
Wire(l) == MarshalScript(l.body.actions)

\* WriteSessionResponse was called for a session that is not failed, has a
\* sprint and waits with w
Rendering(l, w) ==
    /\ l.op = "WriteSessionResponse"
    /\ l.session.status # "F"
    /\ l.session.sprint
    /\ l.session.wait = w

\* the positions of the wait actions of a script: the actions that neither
\* talk nor stream
WaitPositions(js) == {i \in 1..Len(js) : js[i].action \notin {"talk", "stream"}}

\* the event URL of the action a is the URL u with its own signature: the
\* digest of what calculateSignature hashes for u, escaped
SignedAs(a, u, h) ==
    /\ SigningInput(u) \in DOMAIN h
    /\ a.eventUrl = <<u \o "&sig=" \o QueryEscape(h[SigningInput(u)])>>

\* the last two actions of the script js are the record action that reports to
\* the resumption URL under the recording UUID u and the one second input that
\* polls for u
RecordThenPoll(js, n, resumeURL, u, h) ==
    /\ n >= 2
    /\ WaitPositions(js) = {n - 1, n}
    /\ js[n - 1].action = "record"
    /\ js[n - 1].endOnKey = "#"
    /\ js[n - 1].timeOut = 600
    /\ js[n - 1].endOnSilence = 5
    /\ js[n - 1].eventMethod = "POST"
    /\ SignedAs(js[n - 1], resumeURL \o "&wait_type=recording_url&recording_uuid=" \o u, h)
    /\ js[n].action = "input"
    /\ js[n].timeOut = 1
    /\ js[n].eventMethod = "POST"
    /\ SignedAs(js[n], resumeURL \o "&wait_type=record&recording_uuid=" \o u, h)

\* C21: rendering an audio-record wait writes a script whose wait actions are
\* exactly two, the last two of the script: a record action (end key '#',
\* timeout 600, end on silence 5) and then an input action with a one second
\* timeout; both event URLs carry the UUID that uuids.New() has just returned,
\* never handed out before, the first tagged wait_type=recording_url and the
\* second wait_type=record, and each ends in the signature of its own URL.
C21_RecordThenPoll ==
    [][Rendering(last', AudioWait)
       => /\ last'.err = Nil
          /\ issued' = issued + 1
          /\ \A e \in emitted : e.from \in {"record", "poll"} => e.tag # UUIDPool[issued']
          /\ RecordThenPoll(Wire(last'), Len(Wire(last')), ResumeURLOf(last'.conn),
                            UUIDPool[issued'], hmac')]_vars

\* an audio-record wait was rendered after two events, and the two URLs of its
\* script got different signatures
C21_Witness ==
    /\ Rendering(last, AudioWait)
    /\ Len(last.session.events) = 2
    /\ Len(last.body.actions) > 2
    /\ \E e, f \in emitted : e.from = "record" /\ f.from = "poll" /\ RawSigOf(e) # RawSigOf(f)

\* the digit-gather waits of the sessions
GatherWaits == {w \in ScriptWaits : w.kind = "msg" /\ w.hint = "digits"}

\* the last action of the script js is the only wait action: an input that
\* submits on '#', waits 30 seconds and reports to the resumption URL tagged
\* wait_type=gather, signed
GatherInput(js, n, resumeURL, h) ==
    /\ n >= 1
    /\ WaitPositions(js) = {n}
    /\ js[n].action = "input"
    /\ js[n].submitOnHash
    /\ js[n].timeOut = 30
    /\ js[n].eventMethod = "POST"
    /\ SignedAs(js[n], resumeURL \o "&wait_type=gather", h)

\* the script's input has maxDigits, and it is n
MaxDigitsIs(a, n) == "maxDigits" \in DOMAIN a /\ a.maxDigits = n

\* C22: rendering a digit-gather wait writes a script with exactly one wait
\* action, an input with submit-on-hash, a 30 second timeout and an event URL
\* that is the resumption URL tagged wait_type=gather and signed; its maxDigits
\* is the hint's count for every count that is specified, and 20 when none is.
C22_GatherMaxDigits ==
    \A w \in GatherWaits :
        Rendering(last, w)
        => /\ last.err = Nil
           /\ GatherInput(Wire(last), Len(Wire(last)), ResumeURLOf(last.conn), hmac)
           /\ MaxDigitsIs(Wire(last)[Len(Wire(last))], IF w.count # NoInt THEN w.count ELSE 20)

\* how many actions an event adds to a script
Width(e) ==
    IF e.type # "ivr_created" THEN 0
    ELSE IF e.attachments = <<>> THEN 1
    ELSE Len(e.attachments)

\* how many actions the first n events of es add
RECURSIVE Offset(_, _)
Offset(es, n) == IF n = 0 THEN 0 ELSE Offset(es, n - 1) + Width(es[n])

\* the actions of the script js from position k on are those of the event e
ActionsOf(js, k, e) ==
    /\ k + Width(e) <= Len(js)
    /\ e.type = "ivr_created" /\ e.attachments = <<>>
       => js[k + 1].action = "talk" /\ js[k + 1].text = e.text
    /\ e.type = "ivr_created"
       => \A a \in 1..Len(e.attachments) :
              /\ js[k + a].action = "stream"
              /\ js[k + a].streamUrl = <<e.attachments[a]>>

\* C23: in every script that is written, the actions of the events come
\* before the wait actions and in the order of the events: a spoken message
\* without attachments gives one talk action with its text, a spoken message
\* with n attachments gives n stream actions in the order of the attachments
\* and no talk action, and an event of another type gives no action.
C23_EventsThenWait ==
    (last.op = "WriteSessionResponse" /\ last.err = Nil)
    => /\ WaitPositions(Wire(last))
          = Offset(last.session.events, Len(last.session.events)) + 1 .. Len(Wire(last))
       /\ \A i \in 1..Len(last.session.events) :
              ActionsOf(Wire(last), Offset(last.session.events, i - 1), last.session.events[i])

\* a script was written for an event of another type, a spoken message and a
\* message with two attachments, before a wait action
C23_Witness ==
    /\ last.op = "WriteSessionResponse"
    /\ last.err = Nil
    /\ last.session.events = <<OtherEvent, Spoken, Played>>
    /\ Len(Wire(last)) = 4
    /\ Wire(last)[4].action = "input"

\* the waits a script can be built for: digit-gather, audio-record, dial
Supported(w) == (w.kind = "msg" /\ w.hint \in {"digits", "audio"}) \/ w.kind = "dial"

\* the sessions no script is to be rendered for: failed, without a sprint, or
\* waiting with a wait that is not supported
Refused(session) ==
    \/ session.status = "F"
    \/ ~session.sprint
    \/ session.wait.kind # "none" /\ ~Supported(session.wait)

\* C25: for a session that is failed, has no sprint, or has a wait or hint
\* kind other than digit-gather, audio-record and dial, WriteSessionResponse
\* returns an error and writes no action of the script to the response, also
\* when the sprint has spoken messages to render.
C25_NoPartialScript ==
    (last.op = "WriteSessionResponse" /\ Refused(last.session))
    => /\ last.err \notin {Nil, Panic}
       /\ last.body = NoResponse

\* whether the provider reads barge-in as enabled for the action
BargeIn(a) == "bargeIn" \in DOMAIN a /\ a.bargeIn

\* C30: a talk action of a written script has barge-in enabled exactly when
\* the session's wait is a digit-gather input; with a record wait, a dial wait
\* or no wait every talk action has barge-in disabled, and a session with no
\* wait and one spoken message without attachments gets a script of one
\* action, a talk with the message's text and barge-in disabled.
C30_BargeInIffGather ==
    (last.op = "WriteSessionResponse" /\ last.err = Nil)
    => /\ \A i \in 1..Len(Wire(last)) :
              Wire(last)[i].action = "talk"
              => (BargeIn(Wire(last)[i]) <=> last.session.wait \in GatherWaits)
       /\ (last.session.wait = NoWait /\ last.session.events = <<Spoken>>)
          => /\ Len(Wire(last)) = 1
             /\ Wire(last)[1].action = "talk"
             /\ Wire(last)[1].text = "hello"
             /\ ~BargeIn(Wire(last)[1])

\* a spoken message was rendered before a record wait: a talk action without
\* barge-in, then the record action
C30_Witness ==
    /\ Rendering(last, AudioWait)
    /\ last.err = Nil
    /\ last.session.events = <<Spoken>>
    /\ Wire(last)[1].action = "talk"
    /\ ~BargeIn(Wire(last)[1])
    /\ Wire(last)[2].action = "record"
-----------------------------------------------------------------------------
(* Client Facade: writeResponse, the script of a session or the error script *)

\* the apology a call hears when no script can be built for it
ErrorMessage == "An error has occurred, please try again later."

\* WriteErrorResponse: one talk action with the apology and the error's text
WriteErrorResponse(err) ==
    Script(<<[action |-> "talk", text |-> ErrorMessage, bargeIn |-> FALSE, Error |-> err,
              Message |-> ""]>>)

\* writeResponse: the script that WriteSessionResponse wrote, or the error
\* script for the error it returned; a panic is not returned, and nothing is
\* written after it
writeResponse(out) ==
    IF out.err = Nil THEN out.body
    ELSE IF out.err = Panic THEN NoResponse
    ELSE WriteErrorResponse(out.err)

\* sessions of every kind, one of each
RespondSessions ==
    {Session("W", TRUE, <<Spoken>>, w) :
        w \in {NoWait, DigitsWait(4), AudioWait, ImageWait, NoHintWait, OtherWait,
               DialWait("+15551234567", NoInt)}}
    \cup {Session("F", TRUE, <<Spoken>>, DigitsWait(4)), Session("W", FALSE, <<>>, NoWait)}

\* the response to a call-handling request was written
Responded(c, session, env, out) ==
    /\ UsesUUID(session) => env.uuid # Nil
    /\ Apply(out)
    /\ issued' = IF UsesUUID(session) THEN issued + 1 ELSE issued
    /\ assigned' = IF out.sent # <<>> /\ HasKey(env.resp.body, "uuid")
                   THEN assigned + 1 ELSE assigned
    /\ emitted' = IF out.err = Nil THEN emitted \cup EventURLs(out.body.actions, env.uuid)
                  ELSE emitted
    /\ last' = [op |-> "writeResponse", conn |-> c, session |-> session, resp |-> env.resp,
                redisErr |-> env.redisErr, err |-> out.err, response |-> writeResponse(out)]
    /\ UNCHANGED <<now, ticks, seen, recent, rec, polls, batch>>

Respond ==
    \E c \in {"C1"}, s \in RespondSessions, resp \in CreateResponses \cup {TransportError},
       redisErr \in BOOLEAN :
        \E env \in {Env(resp, redisErr, "A/", "A/")} :
            Responded(c, s, env, WriteSessionResponse(store, hmac, c, s, ResumeURLOf(c), env))

ResponseSpec == Init /\ [][Respond]_vars

\* the response is the error script for the error text: a single talk action
\* with the apology and the text in _error
ErrorScript(response, text) ==
    /\ response.kind = "ncco"
    /\ MarshalScript(response.actions)
       = <<[action |-> "talk", text |-> ErrorMessage, _error |-> text]>>

\* C24: whenever building the script of a session fails (failed session, no
\* sprint, unsupported wait, failure to create the transfer call, store
\* failure), the response holds the error script: a single talk action with
\* the apology and the text of the error in _error.
C24_ErrorScript ==
    (last.op = "writeResponse" /\ last.err # Nil) => ErrorScript(last.response, last.err)
-----------------------------------------------------------------------------
(* The 'completed' callback of a transferred leg, delivered more than once *)

\* the 'completed' callbacks of the transferred legs
CompletionBodies == {StatusBody(l, "completed", "42") : l \in Legs}

\* a 'completed' callback was processed: whether it is the one processed just
\* before, for which the original call was redirected
Completes(b, env, out) ==
    /\ Apply(out)
    /\ emitted' = emitted \cup {Emit(out.sent[i].body.destination.url[1], "transfer", "") :
                                    i \in 1..Len(out.sent)}
    /\ last' = [op |-> "Completed", request |-> b, resp |-> env.resp, err |-> out.err,
                sent |-> out.sent,
                repeats |-> /\ last.op = "Completed"
                            /\ last.request = b
                            /\ last.err = Nil
                            /\ last.sent # <<>>]
    /\ UNCHANGED <<now, ticks, issued, assigned, seen, recent, rec, polls, batch>>

Completion ==
    \E b \in CompletionBodies, resp \in UpdateResponses :
        \E env \in {Env(resp, FALSE, "A/", "A/")} :
            Completes(b, env, PreprocessStatus(store, hmac, b, env))

OnceNext == RenderDial \/ DialStatus \/ Completion \/ Clock

OnceSpec == Init /\ [][OnceNext]_vars

\* C26: a transfer resumes the original call at most once: when the
\* 'completed' callback of a transferred leg is delivered again after
\* PreprocessStatus has redirected the original call for it, no second
\* redirect request is sent.
C26_ResumesOnce ==
    (last.op = "Completed" /\ last.repeats) => last.sent = <<>>
-----------------------------------------------------------------------------
(* Polls for a recording that are handled at the same time: the GET and the
   DEL of PreprocessResume are two commands, and the commands of two polls
   reach redis in any order *)

\* the recording UUID of a poll's request
PolledUUID(r) == Get(ParseQuery(r.RawQuery), "recording_uuid")

\* the first command of a poll: GET recording_<uuid>
Gets(p, e, r) ==
    /\ polls[p].pc = "idle"
    /\ ValidateRequestSignature(hmac, "A/", r).err = Nil
    /\ polls' = [polls EXCEPT ![p] = [pc |-> "got", e |-> e, request |-> r,
                                      url |-> RedisGet(store, RecordingKey(PolledUUID(r)))]]
    /\ last' = [op |-> "get", poller |-> p]
    /\ UNCHANGED <<store, now, hmac, requests, ticks, emitted, issued, assigned, seen, recent, rec, batch>>

PollGet ==
    \E p \in Pollers, e \in emitted :
        /\ e.from = "poll"
        /\ Gets(p, e, NewRequest(e.url, InputBody("", TRUE)))

\* the rest of a poll: with a URL, the DEL and the resume of the session with
\* the recording; without one, the script that polls again
Finishes(p, out) ==
    /\ store' = out.store
    /\ polls' = [polls EXCEPT ![p] = [pc |-> "done", e |-> polls[p].e, request |-> polls[p].request,
                                      url |-> polls[p].url, body |-> out.body,
                                      resume |-> out.resume]]
    /\ rec' = IF out.resume.kind = "input" /\ out.resume.attachment # ""
              THEN [rec EXCEPT ![polls[p].e.tag].resumed = out.resume.attachment]
              ELSE rec
    /\ last' = [op |-> "finish", poller |-> p]
    /\ UNCHANGED <<now, hmac, requests, ticks, emitted, issued, assigned, seen, recent, batch>>

PollFinish ==
    \E p \in Pollers :
        /\ polls[p].pc = "got"
        /\ Finishes(p, preprocessed(polled(store, polls[p].request,
                                           RecordingKey(PolledUUID(polls[p].request)),
                                           polls[p].url)))

\* the provider delivers the recording of a record action, once
DeliverOnce ==
    \E e \in emitted, R \in RecordingURLs :
        /\ e.from = "record"
        /\ rec[e.tag].delivered = ""
        /\ Resume(e, RecordingBody(R))

RaceNext == RenderRecord \/ DeliverOnce \/ PollGet \/ PollFinish \/ Clock

RaceSpec == Init /\ [][RaceNext]_vars

\* the polls that have resumed the session with the recording u
Consumers(u) ==
    {p \in Pollers : /\ polls[p].pc = "done"
                     /\ polls[p].e.tag = u
                     /\ polls[p].resume.kind = "input"
                     /\ polls[p].resume.attachment # ""}

\* C27: a recording entry is consumed by at most one poll: of the polls for
\* one recording UUID that are handled at the same time, the commands of each
\* reaching redis in any order, at most one finds the recording URL and
\* resumes the session with it.
C27_ConsumedOnce ==
    \A u \in UUIDs : Cardinality(Consumers(u)) <= 1
-----------------------------------------------------------------------------
(* The correlation store under transfers and recordings together *)

\* statuses of a transferred leg: in the status table, outside of it, final
StoreBodies == {StatusBody(l, s, "") : l \in Legs, s \in {"answered", "busy", "started", "completed"}}

StoreStatus == Status(StoreBodies, {"A/"})

StoreNext == RenderRepeat \/ StoreStatus \/ Deliver \/ Poll \/ Clock

StoreSpec == Init /\ [][StoreNext]_vars

\* the lifetime the adapter gives the entries of a key: an hour for a transfer
\* entry, five minutes for a status entry and for a recording entry, none for
\* any other key
LifetimeOf(k) ==
    IF HasPrefix(k, "dial_status_") THEN 300
    ELSE IF HasPrefix(k, "dial_") THEN 3600
    ELSE IF HasPrefix(k, "recording_") THEN 300
    ELSE 0

\* the entry of the key k in the store st is due to expire, at the time t,
\* within the lifetime of its kind, and a status entry holds a dial outcome
WellKept(st, t, k) ==
    /\ st[k].exp > t
    /\ st[k].exp <= t + LifetimeOf(k)
    /\ HasPrefix(k, "dial_status_") => st[k].val \in {"answered", "busy", "no_answer", "failed"}

\* the keys whose entry the step wrote
Rewritten(st, st2) == {k \in DOMAIN st2 : k \notin DOMAIN st \/ st2[k] # st[k]}

\* the status of the callback is one the status table does not hold
Unmapped(b) ==
    /\ HasKey(b, "status")
    /\ b.obj.status \notin {"cancelled", "answered", "busy", "timeout", "failed", "rejected",
                            "canceled"}

\* C28: every entry of the correlation store carries an expiry: an entry is
\* written to expire an hour (transfer entries) or five minutes (status and
\* recording entries) after the write, and is gone when that time has passed
\* whether or not another callback arrives; every status entry holds one of
\* the dial outcomes answered, busy, no-answer, failed, and a status callback
\* whose status the status table does not hold writes nothing.
C28_StoreExpires ==
    [][/\ \A k \in DOMAIN store' : WellKept(store', now', k)
       /\ \A k \in Rewritten(store, store') : store'[k].exp = now' + LifetimeOf(k)
       /\ (last'.op = "PreprocessStatus" /\ Unmapped(last'.request)) => store' = store]_vars

\* a transfer entry and a status entry are live, the status entry written
\* after the transfer entry
C28_Witness ==
    /\ now > 0
    /\ \E c \in Conns, l \in Legs :
           /\ DialKey(l) \in DOMAIN store
           /\ DialStatusKey(c) \in DOMAIN store
           /\ store[DialStatusKey(c)].exp - 300 > store[DialKey(l)].exp - 3600
-----------------------------------------------------------------------------
(* A recording wait that is abandoned: the recording is never delivered, and
   the provider does what the scripts tell it to *)

\* the one second input of a script times out: the provider posts its event
TimesOut ==
    \E e \in emitted :
        /\ e.from = "poll"
        /\ polls["P1"].pc = "idle"
        /\ polls' = [polls EXCEPT !["P1"] = [pc |-> "posted", e |-> e]]
        /\ UNCHANGED <<store, now, hmac, requests, ticks, emitted, issued, assigned, last, seen,
                       recent, rec, batch>>

\* the event of a polling input was handled, and the provider runs the script
\* it got back
Served(e, r, out) ==
    /\ store' = out.store
    /\ emitted' = IF out.body.kind = "ncco" THEN emitted \cup EventURLs(out.body.actions, e.tag)
                  ELSE emitted
    /\ last' = [op |-> "Poll", tag |-> e.tag, request |-> r, body |-> out.body, err |-> out.err,
                resume |-> out.resume]
    /\ polls' = [polls EXCEPT !["P1"] = [pc |-> "idle"]]
    /\ UNCHANGED <<now, hmac, requests, ticks, issued, assigned, seen, recent, rec, batch>>

Serve ==
    /\ polls["P1"].pc = "posted"
    /\ \E r \in {NewRequest(polls["P1"].e.url, InputBody("", TRUE))} :
           \E out \in {handleResume(store, hmac, r, Env(TransportError, FALSE, "A/", "A/"))} :
               Served(polls["P1"].e, r, out)

AbandonNext == RenderRecord \/ TimesOut \/ Serve \/ Clock

\* the provider runs every script it is given: a polling input that it has
\* been told to run times out after a second and its event is posted; and the
\* adapter answers every event that is posted
AbandonSpec ==
    /\ Init
    /\ [][AbandonNext]_vars
    /\ WF_vars(TimesOut)
    /\ []<>(polls["P1"].pc # "posted") \/ []<><<Serve>>_vars

\* the script told the provider to poll for the recording u
Polling(u) == \E e \in emitted : e.from = "poll" /\ e.tag = u

\* a poll for the recording u did not ask for another poll: it resumed the
\* session, or returned an error
Ended(u) ==
    /\ last.op = "Poll"
    /\ last.tag = u
    /\ last.err # Nil \/ last.body.kind # "ncco"

\* C29: a recording wait whose recording is never delivered does not poll for
\* ever: after finitely many polls a poll for the recording's UUID does not
\* re-render the polling input, and the wait ends in a resume or an error.
C29_PollingEnds == \A u \in UUIDs : Polling(u) ~> Ended(u)

-----------------------------------------------------------------------------
(* The contact import batch (models/imports.go): Import runs tryImport and,
   when that returns an error, markFailed. The batch is the struct b and its
   row in contacts_contactimportbatch; every UPDATE of the row can fail. *)

ContactImportStatusPending == "P"
ContactImportStatusProcessing == "O"
ContactImportStatusComplete == "C"
ContactImportStatusFailed == "F"

\* the most elements the specs of a batch have
MaxSpecs == 2

\* the contacts the database holds, by UUID
ContactUUIDs == {"c1"}

\* a ContactSpec, as far as Import reads it: fields and groups only add
\* modifiers and error messages and are left out
ContactSpec(uuid, language, urn) == [UUID |-> uuid, Language |-> language, URNs |-> <<urn>>]

\* the JSON null as an element of the specs: a nil *ContactSpec once decoded
JSONNull == [null |-> TRUE]

SpecElements ==
    {ContactSpec("c1", Nil, "tel:+15550001"),
     ContactSpec("c9", Nil, "tel:+15550009"),
     ContactSpec("", Nil, "tel:+15550002"),
     ContactSpec("", "english", "tel:+15550003"),
     JSONNull}

\* the specs column of a row: JSON text that is an array of these elements, or
\* text that is no JSON array of objects
RawSpecs ==
    {[valid |-> FALSE, elems |-> <<>>]}
    \cup {[valid |-> TRUE, elems |-> es] :
            es \in UNION {[1..n -> SpecElements] : n \in 0..MaxSpecs}}

\* jsonx.Unmarshal(b.Specs, &specs) into []*ContactSpec
Unmarshal(raw) ==
    IF raw.valid THEN [err |-> Nil, specs |-> raw.elems]
    ELSE [err |-> "json: cannot unmarshal", specs |-> <<>>]

\* a decoded element is a nil pointer
IsNilSpec(spec) == "null" \in DOMAIN spec

\* the calls of Import that can return an error
Calls ==
    {"markProcessing", "GetOrgAssets", "LoadContactsByUUID", "FlowContact",
     "GetOrCreateContact", "ApplyModifiers", "markComplete", "markFailed"}

\* a row of contacts_contactimportbatch as the queueing side writes it
PendingRow(raw, recordStart) ==
    [status |-> ContactImportStatusPending, specs |-> raw, record_start |-> recordStart,
     num_created |-> 0, num_updated |-> 0, num_errored |-> 0, errors |-> <<>>,
     finished_on |-> <<>>]

\* the struct LoadContactImportBatch fills from the six columns it selects
ContactImportBatch(row) ==
    [Status |-> row.status, Specs |-> row.specs, RecordStart |-> row.record_start,
     NumCreated |-> 0, NumUpdated |-> 0, NumErrored |-> 0, Errors |-> <<>>,
     FinishedOn |-> <<>>]

\* the work data of one contact
importContact(record, spec, contact, errors) ==
    [record |-> record, spec |-> spec, contact |-> contact, created |-> FALSE,
     errors |-> errors]

\* envs.ParseLanguage accepts a three letter code
ValidLanguage(l) == Len(l) = 3

\* one pass of the loop of getOrCreateContacts over a spec with no fatal error
importOf(record, spec, fails) ==
    IF spec.UUID # ""
    THEN IF spec.UUID \in ContactUUIDs
         THEN importContact(record, spec, spec.UUID, <<>>)
         ELSE importContact(record, spec, Nil, <<"Unable to find contact with UUID">>)
    ELSE IF "GetOrCreateContact" \in fails
    THEN importContact(record, spec, Nil, <<"Unable to find or create contact with URNs">>)
    ELSE IF spec.Language # Nil /\ ~ValidLanguage(spec.Language)
    THEN importContact(record, spec, spec.URNs[1], <<"is not a valid language code">>)
    ELSE importContact(record, spec, spec.URNs[1], <<>>)

\* the specs whose contact is found by UUID and made into a flow contact
FoundByUUID(specs) ==
    {i \in 1..Len(specs) : specs[i].UUID # "" /\ specs[i].UUID \in ContactUUIDs}

\* getOrCreateContacts: the error it returns (or the panic of reading the
\* UUID of a nil spec in loadContactsByUUID) and the work data
getOrCreateContacts(specs, recordStart, fails) ==
    IF \E i \in 1..Len(specs) : IsNilSpec(specs[i])
    THEN [err |-> Panic, imports |-> <<>>]
    ELSE IF "LoadContactsByUUID" \in fails
    THEN [err |-> "error loading contacts by UUID", imports |-> <<>>]
    ELSE IF "FlowContact" \in fails /\ FoundByUUID(specs) # {}
    THEN [err |-> "error creating flow contact", imports |-> <<>>]
    ELSE [err |-> Nil,
          imports |-> [i \in 1..Len(specs) |-> importOf(recordStart + i - 1, specs[i], fails)]]

\* the batch with what an UPDATE wrote to the row, had it not failed
Exec(b, row, written, call, fails) ==
    IF call \in fails
    THEN [b |-> b, row |-> row, err |-> "pq: connection refused"]
    ELSE [b |-> b, row |-> written, err |-> Nil]

markProcessing(b, row, fails) ==
    Exec([b EXCEPT !.Status = ContactImportStatusProcessing], row,
         [row EXCEPT !.status = ContactImportStatusProcessing], "markProcessing", fails)

\* the error messages of the imports with their records, in order
RECURSIVE importErrors(_)
importErrors(imports) ==
    IF imports = <<>> THEN <<>>
    ELSE [i \in 1..Len(imports[1].errors) |->
             [record |-> imports[1].record, message |-> imports[1].errors[i]]]
         \o importErrors(Tail(imports))

numErrored(imports) == Cardinality({i \in 1..Len(imports) : imports[i].contact = Nil})

numCreated(imports) ==
    Cardinality({i \in 1..Len(imports) : imports[i].contact # Nil /\ imports[i].created})

numUpdated(imports) ==
    Cardinality({i \in 1..Len(imports) : imports[i].contact # Nil /\ ~imports[i].created})

markComplete(b, row, imports, fails, t) ==
    Exec([b EXCEPT !.Status = ContactImportStatusComplete,
                   !.NumCreated = numCreated(imports),
                   !.NumUpdated = numUpdated(imports),
                   !.NumErrored = numErrored(imports),
                   !.Errors = importErrors(imports),
                   !.FinishedOn = <<t>>],
         row,
         [row EXCEPT !.status = ContactImportStatusComplete,
                     !.num_created = numCreated(imports),
                     !.num_updated = numUpdated(imports),
                     !.num_errored = numErrored(imports),
                     !.errors = importErrors(imports),
                     !.finished_on = <<t>>],
         "markComplete", fails)

markFailed(b, row, fails, t) ==
    Exec([b EXCEPT !.Status = ContactImportStatusFailed, !.FinishedOn = <<t>>], row,
         [row EXCEPT !.status = ContactImportStatusFailed, !.finished_on = <<t>>],
         "markFailed", fails)

\* errors.Wrap on the error of a step of tryImport; a panic is no error value
Wrap(m, message) ==
    [m EXCEPT !.err = IF m.err \in {Nil, Panic} THEN m.err ELSE message \o ": " \o m.err]

\* tryImport from the contacts on
importContacts(m, got, fails, t) ==
    IF got.err # Nil
    THEN Wrap([m EXCEPT !.err = got.err], "error getting and creating contacts")
    ELSE IF "ApplyModifiers" \in fails
    THEN [m EXCEPT !.err = "error applying modifiers"]
    ELSE Wrap(markComplete(m.b, m.row, got.imports, fails, t), "unable to mark as complete")

\* tryImport after markProcessing
importMarked(m, parsed, fails, t) ==
    IF m.err # Nil
    THEN Wrap(m, "error marking as processing")
    ELSE IF "GetOrgAssets" \in fails
    THEN [m EXCEPT !.err = "error loading org assets"]
    ELSE IF parsed.err # Nil
    THEN [m EXCEPT !.err = "error unmarsaling specs"]
    ELSE importContacts(m, getOrCreateContacts(parsed.specs, m.b.RecordStart, fails), fails, t)

tryImport(b, row, fails, t) ==
    importMarked(markProcessing(b, row, fails), Unmarshal(b.Specs), fails, t)

\* Import once tryImport has ended in m: markFailed if it returned an error,
\* and the error of markFailed is dropped
imported(m, fails, t) ==
    IF m.err \in {Nil, Panic} THEN m
    ELSE [markFailed(m.b, m.row, fails, t) EXCEPT !.err = m.err]

Import(b, row, fails, t) == imported(tryImport(b, row, fails, t), fails, t)

\* LoadContactImportBatch reads a pending row into a new struct, or fails
LoadContactImportBatch ==
    \E raw \in RawSpecs, failed \in BOOLEAN :
        /\ batch' = IF failed THEN [pc |-> "idle"]
                    ELSE [pc |-> "loaded", b |-> ContactImportBatch(PendingRow(raw, 0)),
                          row |-> PendingRow(raw, 0)]
        /\ last' = [op |-> "LoadContactImportBatch", failed |-> failed]
        /\ UNCHANGED <<store, now, hmac, requests, ticks, emitted, issued, assigned, seen,
                       recent, rec, polls>>

\* the batch after Import has ended in m
Imported(m) == [pc |-> "done", b |-> m.b, row |-> m.row, ret |-> m.err]

ImportBatch ==
    /\ batch.pc = "loaded"
    /\ \E fails \in SUBSET Calls :
        /\ batch' = Imported(Import(batch.b, batch.row, fails, now))
        /\ last' = [op |-> "Import", fails |-> fails]
    /\ UNCHANGED <<store, now, hmac, requests, ticks, emitted, issued, assigned, seen,
                   recent, rec, polls>>

ImportNext == LoadContactImportBatch \/ ImportBatch \/ Clock

ImportSpec == Init /\ [][ImportNext]_vars

\* the statuses a finished batch has
Terminal == {ContactImportStatusComplete, ContactImportStatusFailed}

\* the number of specs in the batch
NumSpecs(b) == Len(Unmarshal(b.Specs).specs)

\* C31: once Import has ended, the batch is in a terminal status, in the struct
\* and in its row: Complete if Import returned nil, Failed if it returned an
\* error, in both cases with the finish time set; it is never left Pending or
\* Processing, and a completed batch has num_created + num_updated +
\* num_errored equal to the number of its specs.
C31_ImportEndsTerminal ==
    batch.pc = "done"
    => /\ batch.b.Status \in Terminal
       /\ batch.row.status \in Terminal
       /\ batch.b.FinishedOn # <<>>
       /\ batch.row.finished_on # <<>>
       /\ batch.ret = Nil
          => /\ batch.b.Status = ContactImportStatusComplete
             /\ batch.row.status = ContactImportStatusComplete
             /\ batch.b.NumCreated + batch.b.NumUpdated + batch.b.NumErrored = NumSpecs(batch.b)
             /\ batch.row.num_created + batch.row.num_updated + batch.row.num_errored
                    = NumSpecs(batch.b)
       /\ batch.ret # Nil
          => /\ batch.b.Status = ContactImportStatusFailed
             /\ batch.row.status = ContactImportStatusFailed
====
